---- MODULE Spec2Model ----
(***************************************************************************)
(* Recipe tree loader, resource aggregation, auction-house grouping and    *)
(* rune extraction of gofusretrodb (database.go, workshop_database.go).    *)
(*                                                                         *)
(* The store (the relational tables the DatabaseService queries) is the    *)
(* state; every exported operation is one action that writes what it       *)
(* returned into ret; the specifications of the last sections run a call   *)
(* one store lookup at a time, its locals in calls.  A nil pointer or an   *)
(* absent row is the empty sequence <<>>, a present one is the one-element *)
(* sequence <<v>>.  A Go string that is compared with < is a sequence of   *)
(* byte values.                                                            *)
(***************************************************************************)
EXTENDS Integers, Sequences, FiniteSets, TLC

VARIABLES
    items,          \* ids of the rows of table items
    recipes,        \* item id -> ingredient rows of the recipe whose item_id it is
    translations,   \* item id -> (language -> name): table item_translations
    itemTypes,      \* item id -> id of its item_types row (0: no such row)
    types,          \* item type id -> [AuctionHouseID]
    auctionHouses,  \* auction house id -> [DisplayOrder, Names]
    stats,          \* item id -> stat type ids of its item_stats rows, in row order
    runes,          \* rows of table runes, in row order
    lists,          \* ids of the rows of table workshop_lists
    listItems,      \* rows of table workshop_list_items, in row order
    listItemSeq,    \* the last id the sequence of workshop_list_items.id handed out
    ret,            \* the last call: its name, its arguments and what it returned
    calls,          \* the calls in progress: caller -> the locals of its call
    last            \* what the caller kept of the call before the last one

store == <<items, recipes, translations, itemTypes, types, auctionHouses,
           stats, runes, lists, listItems, listItemSeq>>
vars == <<items, recipes, translations, itemTypes, types, auctionHouses,
          stats, runes, lists, listItems, listItemSeq, ret, calls, last>>

----------------------------------------------------------------------------
(* Bounds of the model *)

\* ingredient rows in the whole recipes table
MaxIngredientRows == 2
\* rows of a workshop list
MaxListEntries == 2
\* rows of table runes
MaxRunes == 3
\* the largest maxDepth a caller passes to LoadRecipeRecursive
MaxDepthArg == 3

\* a list loader that goes one level deeper
ListMaxDepthDeeper == 3 + 1

\* the maxDepth GetWorkshopListByID passes to LoadRecipeRecursive
ListMaxDepth == 3

ItemIDs == {1, 2, 3}
\* an id that ingredient rows may carry although items has no such row
DanglingItemID == Cardinality(ItemIDs) + 1
Quantities == {1, 2}
\* the languages a translation row can have, and those a caller asks for
Languages == {"en", "fr"}
RequestLanguages == {"en"}
ListIDs == {1, 2}

----------------------------------------------------------------------------
(* Values *)

Nil == <<>>
Some(v) == <<v>>

NoError == "nil"
ErrRecordNotFound == "record not found"
ErrLoadRecipe == "failed to load recipe"
ErrLoadIngredientItem == "failed to load ingredient item"
ErrGetWorkshopList == "failed to get workshop list"

\* byte-wise comparison of two Go strings (operator < on string)
RECURSIVE StrLess(_, _)
StrLess(a, b) ==
    IF b = <<>> THEN FALSE
    ELSE IF a = <<>> THEN TRUE
    ELSE IF Head(a) # Head(b) THEN Head(a) < Head(b)
    ELSE StrLess(Tail(a), Tail(b))

\* the zero value of ItemModel (an ingredient's Item before it is attached)
ZeroItem ==
    [ID |-> 0, Translations |-> <<>>, Type |-> Nil, Recipe |-> Nil, Stats |-> <<>>]

----------------------------------------------------------------------------
(* Store lookups *)

\* Preload("Translations", "language = ?", language)
TranslationsOf(id, language) ==
    IF language \in DOMAIN translations[id]
    THEN <<[Language |-> language, Name |-> translations[id][language]]>>
    ELSE <<>>

\* a Preload that names Type.AuctionHouse.Translations as well
TypeOfWithAuctionHouse(id) ==
    IF itemTypes[id] \in DOMAIN types
    THEN LET linked == types[itemTypes[id]].AuctionHouseID IN
         Some([ID |-> itemTypes[id],
               AuctionHouseID |-> linked,
               AuctionHouse |->
                   IF linked # Nil /\ linked[1] \in DOMAIN auctionHouses
                   THEN LET ah == auctionHouses[linked[1]] IN
                        Some([ID |-> linked[1], DisplayOrder |-> ah.DisplayOrder,
                              Translations |->
                                  IF DOMAIN ah.Names = {} THEN <<>>
                                  ELSE LET l == CHOOSE x \in DOMAIN ah.Names : TRUE IN
                                       <<[Language |-> l, Name |-> ah.Names[l]]>>])
                   ELSE Nil])
    ELSE Nil

\* Preload("Type.Translations", ...): the item_types row; its AuctionHouse
\* association is not named by any Preload and stays nil
TypeOf(id) ==
    IF itemTypes[id] \in DOMAIN types
    THEN Some([ID |-> itemTypes[id],
               AuctionHouseID |-> types[itemTypes[id]].AuctionHouseID,
               AuctionHouse |-> Nil])
    ELSE Nil

\* ds.db.Preload(...).Where("id = ?", id).First(&ingredientItem)
FindItem(id, language) ==
    IF id \in items
    THEN Some([ID |-> id, Translations |-> TranslationsOf(id, language),
               Type |-> TypeOf(id), Recipe |-> Nil, Stats |-> <<>>])
    ELSE Nil

\* ds.db.Preload("Ingredients").Where("item_id = ?", id).First(&recipe):
\* the recipe (its ingredients come with the zero Item) and the error
FindRecipe(id) ==
    IF id \in DOMAIN recipes
    THEN [recipe |-> [ItemID |-> id,
                      Ingredients |-> [i \in 1..Len(recipes[id]) |->
                          [ItemID |-> recipes[id][i].ItemID,
                           Quantity |-> recipes[id][i].Quantity,
                           Item |-> ZeroItem]]],
          err |-> NoError]
    ELSE [recipe |-> [ItemID |-> 0, Ingredients |-> <<>>], err |-> ErrRecordNotFound]

----------------------------------------------------------------------------
(* LoadRecipeRecursive, database.go *)

\* a cap that lets the item at depth maxDepth load its recipe too
DepthReachedOffByOne(currentDepth, maxDepth) == currentDepth > maxDepth

\* a loader without the depth cap
DepthReachedNever(currentDepth, maxDepth) == FALSE

\* if currentDepth >= maxDepth { return nil }
DepthReached(currentDepth, maxDepth) == currentDepth >= maxDepth

\* a loader that takes no lookup error for a base material
IsBaseMaterialNever(err) == FALSE

\* if err == gorm.ErrRecordNotFound { return nil }
IsBaseMaterial(err) == err = ErrRecordNotFound

\* a loop that goes on to the next ingredient when the load below failed
SubLoadFailedNever(err) == FALSE

\* if err := ds.LoadRecipeRecursive(&ingredientItem, ...); err != nil { return err }
SubLoadFailed(err) == err # NoError

RECURSIVE LoadRecipeRecursive(_, _, _, _)
RECURSIVE LoadIngredients(_, _, _, _, _)

\* the loop over recipe.Ingredients from index i on; ings is the slice the
\* attached recipe points to, so what is written before an error stays
LoadIngredients(ings, i, language, maxDepth, currentDepth) ==
    IF i > Len(ings) THEN [ings |-> ings, err |-> NoError]
    ELSE LET found == FindItem(ings[i].ItemID, language) IN
         IF found = Nil THEN [ings |-> ings, err |-> ErrLoadIngredientItem]
         ELSE LET sub == LoadRecipeRecursive(found[1], language, maxDepth,
                                              currentDepth + 1) IN
              IF SubLoadFailed(sub.err) THEN [ings |-> ings, err |-> sub.err]
              ELSE LoadIngredients([ings EXCEPT ![i].Item = sub.item], i + 1,
                                   language, maxDepth, currentDepth)

\* returns the item as the call leaves it and the error
LoadRecipeRecursive(item, language, maxDepth, currentDepth) ==
    IF DepthReached(currentDepth, maxDepth) THEN [item |-> item, err |-> NoError]
    ELSE LET found == FindRecipe(item.ID) IN
         IF found.err # NoError
         THEN IF IsBaseMaterial(found.err)
              THEN [item |-> item, err |-> NoError]
              ELSE [item |-> item, err |-> ErrLoadRecipe]
         ELSE LET l == LoadIngredients(found.recipe.Ingredients, 1, language,
                                       maxDepth, currentDepth) IN
              [item |-> [item EXCEPT !.Recipe =
                            Some([found.recipe EXCEPT !.Ingredients = l.ings])],
               err |-> l.err]

----------------------------------------------------------------------------
(* GetWorkshopListByID, workshop_database.go *)

\* Preload("Items.Item.Stats.StatType.Runes.Item.Translations", "language = ?"):
\* the rune's item with the translations of the requested language only
RuneItemOf(rune, language) ==
    IF rune.ItemID # Nil /\ rune.ItemID[1] \in items
    THEN Some([ID |-> rune.ItemID[1],
               Translations |-> TranslationsOf(rune.ItemID[1], language)])
    ELSE Nil

\* the runes rows of one stat type, in row order, each with its item
RECURSIVE RunesOf(_, _, _)
RunesOf(statTypeID, language, i) ==
    IF i > Len(runes) THEN <<>>
    ELSE IF runes[i].StatTypeID = statTypeID
         THEN <<[ID |-> runes[i].ID, Code |-> runes[i].Code,
                 Weight |-> runes[i].Weight,
                 Item |-> RuneItemOf(runes[i], language)]>>
              \o RunesOf(statTypeID, language, i + 1)
         ELSE RunesOf(statTypeID, language, i + 1)

\* Preload("Items.Item.Stats.StatType..."): the item_stats rows of an item
StatsOf(id, language) ==
    [k \in 1..Len(stats[id]) |->
        [StatTypeID |-> stats[id][k],
         StatType |-> [ID |-> stats[id][k],
                       Runes |-> RunesOf(stats[id][k], language, 1)]]]

\* Preload("Items.Item..."): the item of a list row; the zero item when the row
\* points at no item
ListItemItem(id, language) ==
    IF id \in items
    THEN [ID |-> id, Translations |-> TranslationsOf(id, language),
          Type |-> TypeOf(id), Recipe |-> Nil, Stats |-> StatsOf(id, language)]
    ELSE ZeroItem

\* Preload("Items"): the workshop_list_items rows of the list, in row order
RECURSIVE ListRows(_, _)
ListRows(listID, i) ==
    IF i > Len(listItems) THEN <<>>
    ELSE IF listItems[i].WorkshopListID = listID
         THEN <<listItems[i]>> \o ListRows(listID, i + 1)
         ELSE ListRows(listID, i + 1)

\* a list loader that gives up on the first recipe load that fails
LoadErrorAbortsStrict(err) == err # NoError

\* "Don't fail if recipe loading fails, just continue"
LoadErrorAborts(err) == FALSE

\* for i := range list.Items { LoadRecipeRecursive(&list.Items[i].Item, language, 3, 0) }
RECURSIVE LoadListRecipes(_, _, _)
LoadListRecipes(rows, i, language) ==
    IF i > Len(rows) THEN [Items |-> rows, err |-> NoError]
    ELSE LET l == LoadRecipeRecursive(rows[i].Item, language, ListMaxDepth, 0) IN
         IF LoadErrorAborts(l.err) THEN [Items |-> rows, err |-> l.err]
         ELSE LoadListRecipes([rows EXCEPT ![i].Item = l.item], i + 1, language)

\* list.Items as First with its Preloads fills it: no recipe attached yet
PreloadedItems(listID, language) ==
    LET rows == ListRows(listID, 1) IN
    [k \in 1..Len(rows) |->
        [ID |-> rows[k].ID, ItemID |-> rows[k].ItemID, Quantity |-> rows[k].Quantity,
         Item |-> ListItemItem(rows[k].ItemID, language)]]

GetWorkshopListByID(listID, language) ==
    IF listID \notin lists THEN [list |-> Nil, err |-> ErrGetWorkshopList]
    ELSE LET l == LoadListRecipes(PreloadedItems(listID, language), 1, language)
         IN IF l.err # NoError THEN [list |-> Nil, err |-> l.err]
            ELSE [list |-> Some([ID |-> listID, Items |-> l.Items]), err |-> NoError]

----------------------------------------------------------------------------
(* aggregateRecipeResources and GetAllResourcesForList, workshop_database.go *)

\* name := ""; if len(ingredient.Item.Translations) > 0 { name = ...[0].Name }
IngredientName(ingredient) ==
    IF Len(ingredient.Item.Translations) > 0
    THEN ingredient.Item.Translations[1].Name
    ELSE <<>>

\* "Get auction house info from preloaded item type"
IngredientAuctionHouse(ingredient) ==
    IF ingredient.Item.Type # Nil /\ ingredient.Item.Type[1].AuctionHouse # Nil
    THEN LET ah == ingredient.Item.Type[1].AuctionHouse[1] IN
         [ID |-> Some(ah.ID), DisplayOrder |-> ah.DisplayOrder,
          Name |-> IF Len(ah.Translations) > 0 THEN ah.Translations[1].Name ELSE <<>>]
    ELSE [ID |-> Nil, DisplayOrder |-> 0, Name |-> <<>>]

\* an aggregator that keeps the quantity of the first visit of an item
AccumulateFirst(total, needed) == total

\* an aggregator that overwrites the running total of an item it meets again
AccumulateOverwrite(total, needed) == needed

\* existing.TotalNeeded += needed
Accumulate(total, needed) == total + needed

\* an aggregator that adds the quantities along a path
NeededSum(quantity, multiplier) == quantity + multiplier

\* needed := ingredient.Quantity * multiplier
Needed(quantity, multiplier) == quantity * multiplier

\* existing.TotalNeeded += needed
AddToExisting(ingredient, needed, resources) ==
    [resources EXCEPT ![ingredient.ItemID].TotalNeeded =
        Accumulate(resources[ingredient.ItemID].TotalNeeded, needed)]

\* resources[ingredient.ItemID] = &ResourceRequirement{...}
NewRequirement(ingredient, needed, resources) ==
    LET ah == IngredientAuctionHouse(ingredient) IN
    [k \in DOMAIN resources \cup {ingredient.ItemID} |->
        IF k = ingredient.ItemID
        THEN [ItemID |-> ingredient.ItemID,
              Name |-> IngredientName(ingredient),
              TotalNeeded |-> needed,
              AuctionHouseID |-> ah.ID,
              AuctionHouseName |-> ah.Name,
              AuctionHouseDisplayOrder |-> ah.DisplayOrder]
        ELSE resources[k]]

\* a recursion that hands the sub-recipe the multiplier it was handed itself
SubMultiplierOuter(needed, multiplier) == multiplier

\* ds.aggregateRecipeResources(ingredient.Item.Recipe, needed, resources)
SubMultiplier(needed, multiplier) == needed

RECURSIVE aggregateRecipeResources(_, _, _)
RECURSIVE AggregateIngredients(_, _, _, _)

\* an aggregation that records an ingredient and never looks below it
AggregateBelowFlat(ings, i, multiplier, needed, recorded) ==
    AggregateIngredients(ings, i + 1, multiplier, recorded)

\* "If ingredient has a recipe, also recurse into it", then the next ingredient
AggregateBelow(ings, i, multiplier, needed, recorded) ==
    AggregateIngredients(ings, i + 1, multiplier,
        IF ings[i].Item.Recipe # Nil
        THEN aggregateRecipeResources(ings[i].Item.Recipe,
                 SubMultiplier(needed, multiplier), recorded)
        ELSE recorded)

\* for _, ingredient := range recipe.Ingredients, from index i on; the map is
\* looked up before anything is written to it
AggregateIngredients(ings, i, multiplier, resources) ==
    IF i > Len(ings) THEN resources
    ELSE LET ingredient == ings[i]
             needed == Needed(ingredient.Quantity, multiplier)
         IN IF ingredient.ItemID \in DOMAIN resources
            THEN AggregateBelow(ings, i, multiplier, needed,
                     AddToExisting(ingredient, needed, resources))
            ELSE AggregateBelow(ings, i, multiplier, needed,
                     NewRequirement(ingredient, needed, resources))

\* recipe is a pointer: Nil or Some(recipe); resources is the map, a function
\* from the item ids it holds
aggregateRecipeResources(recipe, multiplier, resources) ==
    IF recipe = Nil THEN resources
    ELSE AggregateIngredients(recipe[1].Ingredients, 1, multiplier, resources)

\* if listItem.Item.Recipe == nil { continue }
SkipsEntry(listItem) == listItem.Item.Recipe = Nil

\* for _, listItem := range list.Items, from index i on
RECURSIVE AggregateList(_, _, _)
AggregateList(listRows, i, resourceMap) ==
    IF i > Len(listRows) THEN resourceMap
    ELSE IF SkipsEntry(listRows[i]) THEN AggregateList(listRows, i + 1, resourceMap)
    ELSE AggregateList(listRows, i + 1,
             aggregateRecipeResources(listRows[i].Item.Recipe,
                                      listRows[i].Quantity, resourceMap))

EmptyMap == [k \in {} |-> 0]

\* the sequences that hold every element of S once: the orders in which a
\* range over a map with key set S can visit it
RECURSIVE Perms(_)
Perms(S) ==
    IF S = {} THEN {<<>>}
    ELSE UNION {{<<x>> \o p : p \in Perms(S \ {x})} : x \in S}

\* the slices the two loops of GetAllResourcesForList can build from the items
\* of a loaded list: the values of a resourceMap of its own, in one of the
\* orders the range over the map can take
ResourceSlices(listRows) ==
    LET resourceMap == AggregateList(listRows, 1, EmptyMap) IN
    {[i \in 1..Len(p) |-> resourceMap[p[i]]] : p \in Perms(DOMAIN resourceMap)}

\* what GetAllResourcesForList can return: the error, or the values of
\* resourceMap in one of the orders the range over the map can take (list is
\* the local variable of that name, kept for the properties)
GetAllResourcesForList(listID, language) ==
    LET l == GetWorkshopListByID(listID, language) IN
    IF l.err # NoError THEN {[resources |-> <<>>, err |-> l.err, list |-> Nil]}
    ELSE {[resources |-> r, err |-> NoError, list |-> l.list] :
             r \in ResourceSlices(l.list[1].Items)}

----------------------------------------------------------------------------
(* GetResourcesGroupedByAuctionHouse, workshop_database.go *)

\* what sort.Slice(seq, less) can leave in a slice that held seq, less[i, j]
\* telling whether the element at i sorts before the one at j: a permutation
\* of seq in which no element is less than an element before it (sort.Slice
\* is not stable: elements that compare equal come out in any order)
SortSlice(seq, less) ==
    {[i \in 1..Len(seq) |-> seq[p[i]]] : p \in
        {q \in Perms(1..Len(seq)) :
            \A i, j \in 1..Len(seq) : i < j => ~less[q[j], q[i]]}}

\* a comparison that sorts the names downwards
ResourceNameLessReversed(a, b) == StrLess(b.Name, a.Name)

\* return grouped[key][i].Name < grouped[key][j].Name
ResourceNameLess(a, b) == StrLess(a.Name, b.Name)

RECURSIVE GroupOf(_, _, _)

\* a grouping that keeps, in a bucket, the last resource of its key only
GroupOfLast(resources, key, i) ==
    IF i > Len(resources) THEN <<>>
    ELSE IF resources[i].AuctionHouseName = key
         THEN LET rest == GroupOf(resources, key, i + 1) IN
              IF rest = <<>> THEN <<resources[i]>> ELSE rest
         ELSE GroupOf(resources, key, i + 1)

\* grouped[key] = append(grouped[key], res): the resources of one key, in the
\* order of resources
GroupOf(resources, key, i) ==
    IF i > Len(resources) THEN <<>>
    ELSE IF resources[i].AuctionHouseName = key
         THEN <<resources[i]>> \o GroupOf(resources, key, i + 1)
         ELSE GroupOf(resources, key, i + 1)

GroupKeys(resources) == {resources[i].AuctionHouseName : i \in 1..Len(resources)}

\* ahDisplayOrder[key]: stored once per key, from the first resource that has it
AhDisplayOrder(resources, key) == GroupOf(resources, key, 1)[1].AuctionHouseDisplayOrder

\* the order slice before it is sorted: the keys of grouped other than "", in
\* one of the orders the range over the map can take; then sort.Slice by
\* display order; then "" if grouped[""] has members
OrderOf(resources) ==
    LET named == GroupKeys(resources) \ {<<>>}
        sorted == UNION {SortSlice(o, [i, j \in 1..Len(o) |->
                             AhDisplayOrder(resources, o[i]) < AhDisplayOrder(resources, o[j])]) :
                         o \in Perms(named)}
    IN IF Len(GroupOf(resources, <<>>, 1)) > 0
       THEN {o \o <<<<>>>> : o \in sorted}
       ELSE sorted

\* sort.Slice(grouped[key], func(i, j int) bool { ... })
SortGroup(group) ==
    SortSlice(group, [i, j \in 1..Len(group) |-> ResourceNameLess(group[i], group[j])])

\* the map grouped after the last loop: every bucket sorted by name
GroupedOf(resources) ==
    {g \in [GroupKeys(resources) ->
              UNION {SortGroup(GroupOf(resources, k, 1)) : k \in GroupKeys(resources)}] :
        \A k \in GroupKeys(resources) : g[k] \in SortGroup(GroupOf(resources, k, 1))}

\* what GetResourcesGroupedByAuctionHouse can return
GetResourcesGroupedByAuctionHouse(listID, language) ==
    UNION {IF r.err # NoError
           THEN {[grouped |-> EmptyMap, order |-> <<>>, err |-> r.err, resources |-> <<>>]}
           ELSE {[grouped |-> g, order |-> o, err |-> NoError, resources |-> r.resources] :
                    g \in GroupedOf(r.resources), o \in OrderOf(r.resources)} :
           r \in GetAllResourcesForList(listID, language)}

----------------------------------------------------------------------------
(* GetUniqueRunesForList, workshop_database.go *)

\* for _, t := range rune.Item.Translations { if t.Language == language &&
\* t.Name != "" { name = t.Name; break } }
RECURSIVE MatchingName(_, _, _)
MatchingName(ts, language, i) ==
    IF i > Len(ts) THEN <<>>
    ELSE IF ts[i].Language = language /\ ts[i].Name # <<>> THEN ts[i].Name
    ELSE MatchingName(ts, language, i + 1)

\* a naming that stops at the translations and never falls back to rune.Code
RuneNameWithoutCode(rune, language) ==
    IF rune.Item = Nil THEN <<>>
    ELSE LET matched == MatchingName(rune.Item[1].Translations, language, 1) IN
         IF matched = <<>> /\ Len(rune.Item[1].Translations) > 0
         THEN rune.Item[1].Translations[1].Name
         ELSE matched

\* the name of a rune: its item's translation in the language, else its item's
\* first translation, else its code
RuneName(rune, language) ==
    LET matched == IF rune.Item # Nil
                   THEN MatchingName(rune.Item[1].Translations, language, 1)
                   ELSE <<>>
        fallback == IF rune.Item # Nil /\ matched = <<>>
                       /\ Len(rune.Item[1].Translations) > 0
                    THEN rune.Item[1].Translations[1].Name
                    ELSE matched
    IN IF fallback = <<>> THEN rune.Code ELSE fallback

\* the runes the three nested loops visit, in the order they visit them
RECURSIVE StatRunes(_, _)
StatRunes(itemStats, k) ==
    IF k > Len(itemStats) THEN <<>>
    ELSE itemStats[k].StatType.Runes \o StatRunes(itemStats, k + 1)

\* the runes of the stats that the store holds for the ingredient items of a
\* loaded recipe, from position k on
RECURSIVE IngredientRunes(_, _)
IngredientRunes(recipe, k) ==
    IF recipe = Nil \/ k > Len(recipe[1].Ingredients) THEN <<>>
    ELSE (IF recipe[1].Ingredients[k].ItemID \in items
          THEN StatRunes(StatsOf(recipe[1].Ingredients[k].ItemID,
                                 CHOOSE l \in RequestLanguages : TRUE), 1)
          ELSE <<>>)
         \o IngredientRunes(recipe, k + 1)

RECURSIVE ListRunes(_, _)
\* a walk that also visits the stats of the ingredients of every list item
ListRunesWithIngredients(listRows, i) ==
    IF i > Len(listRows) THEN <<>>
    ELSE StatRunes(listRows[i].Item.Stats, 1)
         \o IngredientRunes(listRows[i].Item.Recipe, 1)
         \o ListRunes(listRows, i + 1)

\* for _, listItem := range list.Items { for _, stat := range listItem.Item.Stats
ListRunes(listRows, i) ==
    IF i > Len(listRows) THEN <<>>
    ELSE StatRunes(listRows[i].Item.Stats, 1) \o ListRunes(listRows, i + 1)

\* a walk that records a rune under the position of its visit
RuneKeyByVisit(rune, i) == i

\* runeMap[rune.ID]: the key a rune is recorded under
RuneKey(rune, i) == rune.ID

\* if _, exists := runeMap[rune.ID]; exists { continue }; runeMap[rune.ID] = ...
RECURSIVE CollectRunes(_, _, _, _)
CollectRunes(visited, i, language, runeMap) ==
    IF i > Len(visited) THEN runeMap
    ELSE IF RuneKey(visited[i], i) \in DOMAIN runeMap
         THEN CollectRunes(visited, i + 1, language, runeMap)
         ELSE CollectRunes(visited, i + 1, language,
                  [k \in DOMAIN runeMap \cup {RuneKey(visited[i], i)} |->
                      IF k = RuneKey(visited[i], i)
                      THEN [RuneID |-> visited[i].ID,
                            Name |-> RuneName(visited[i], language),
                            Code |-> visited[i].Code,
                            Weight |-> visited[i].Weight]
                      ELSE runeMap[k]])

\* a comparison that sorts the weights upwards
RuneWeightLessReversed(a, b) == a.Weight < b.Weight

\* return runes[i].Weight > runes[j].Weight
RuneWeightLess(a, b) == a.Weight > b.Weight

\* sort.Slice(runes, func(i, j int) bool { ... })
SortRunes(rs) ==
    SortSlice(rs, [i, j \in 1..Len(rs) |-> RuneWeightLess(rs[i], rs[j])])

\* the slices GetUniqueRunesForList can build from the items of a loaded list:
\* the values of a runeMap of its own in one of the orders of the range over
\* it, sorted
RuneSlices(listRows, language) ==
    LET runeMap == CollectRunes(ListRunes(listRows, 1), 1, language, EmptyMap) IN
    UNION {SortRunes([i \in 1..Len(p) |-> runeMap[p[i]]]) : p \in Perms(DOMAIN runeMap)}

\* what GetUniqueRunesForList can return
GetUniqueRunesForList(listID, language) ==
    LET l == GetWorkshopListByID(listID, language) IN
    IF l.err # NoError THEN {[runes |-> <<>>, err |-> l.err]}
    ELSE {[runes |-> r, err |-> NoError] : r \in RuneSlices(l.list[1].Items, language)}

----------------------------------------------------------------------------
(* The stores the specifications start from *)

IngredientRows == [ItemID : ItemIDs \cup {DanglingItemID}, Quantity : Quantities]

\* the ingredient lists of one recipe: minLen to maxLen rows
IngredientLists(minLen, maxLen) == UNION {[1..k -> IngredientRows] : k \in minLen..maxLen}

\* the recipes tables over the items of S in which every recipe has at least
\* minLen and all recipes together at most rowsLeft ingredient rows
RECURSIVE RecipeTables(_, _, _)
RecipeTables(S, rowsLeft, minLen) ==
    IF S = {} THEN {EmptyMap}
    ELSE LET i == CHOOSE x \in S : \A y \in S : x <= y IN
         RecipeTables(S \ {i}, rowsLeft, minLen) \cup
         UNION {{(i :> r) @@ c : c \in RecipeTables(S \ {i}, rowsLeft - Len(r), minLen)} :
                r \in IngredientLists(minLen, rowsLeft)}

\* the workshop_list_items tables: at most MaxListEntries rows, all of list 1,
\* no item twice.  The first row is about item 1: the recipes tables range
\* over every item alike, so a list that starts with another item is one of
\* these lists with the item ids exchanged.
RECURSIVE ListTablesFrom(_)
ListTablesFrom(n) ==
    IF n = 0 THEN {<<>>}
    ELSE LET shorter == ListTablesFrom(n - 1) IN
         shorter \cup
         {Append(t, [ID |-> Len(t) + 1, WorkshopListID |-> 1, ItemID |-> i, Quantity |-> q]) :
             t \in {u \in shorter : Len(u) = n - 1}, i \in ItemIDs, q \in Quantities}

ListTables ==
    {t \in ListTablesFrom(MaxListEntries) :
        /\ \A a, b \in 1..Len(t) : t[a].ItemID = t[b].ItemID => a = b
        /\ Len(t) > 0 => t[1].ItemID = 1}

\* item i is named by the single byte 64 + i in English, and has no other name
DefaultTranslations == [i \in ItemIDs |-> ("en" :> <<64 + i>>)]

NoCall == [op |-> "none"]

\* no call is in progress
NoCalls == <<>>

\* the tables the specification at hand does not vary
FixedTypes ==
    /\ itemTypes = [i \in ItemIDs |-> 0]
    /\ types = EmptyMap
    /\ auctionHouses = EmptyMap

FixedRunes ==
    /\ stats = [i \in ItemIDs |-> <<>>]
    /\ runes = <<>>

----------------------------------------------------------------------------
(* Specification Spec: the recipe loader over every recipes table within   *)
(* the bounds, recipes without ingredient rows included                    *)

Init ==
    /\ items = ItemIDs
    /\ recipes \in RecipeTables(ItemIDs, MaxIngredientRows, 0)
    /\ translations = DefaultTranslations
    /\ FixedTypes
    /\ FixedRunes
    /\ lists = {1}
    /\ listItems = <<>>
    /\ ret = NoCall
    /\ calls = NoCalls
    /\ last = NoCall
    /\ listItemSeq = Len(listItems)

\* The caller is sequential: it makes a call when it holds no result, and
\* Return is the caller dropping the result it was handed.  No operation keeps
\* anything between calls but the store.
Return ==
    /\ ret # NoCall
    /\ ret' = NoCall
    /\ UNCHANGED <<store, calls, last>>

\* the caller makes its next call and keeps the result of this one to compare
ReturnKeeping ==
    /\ ret # NoCall
    /\ last' = ret
    /\ ret' = NoCall
    /\ UNCHANGED <<store, calls>>

\* a loader that saves the item it was handed back to the store, with the
\* translations it was preloaded with
DoLoadRecipeRecursiveSaving ==
    /\ ret = NoCall
    /\ \E root \in items, language \in Languages, maxDepth \in 0..MaxDepthArg :
        LET r == LoadRecipeRecursive(FindItem(root, language)[1], language, maxDepth, 0) IN
        /\ ret' = [op |-> "LoadRecipeRecursive", root |-> root, language |-> language,
                   maxDepth |-> maxDepth, item |-> r.item, err |-> r.err]
        /\ translations' = [translations EXCEPT ![root] =
               [l \in DOMAIN translations[root] \cap {language} |-> translations[root][l]]]
        /\ UNCHANGED <<items, recipes, itemTypes, types, auctionHouses, stats, runes,
                       lists, listItems, listItemSeq, calls, last>>

\* a caller that resolved the root item (as GetItemWithFullRecipeTree does)
\* calls LoadRecipeRecursive(&item, language, maxDepth, 0)
DoLoadRecipeRecursive ==
    /\ ret = NoCall
    /\ \E root \in items, language \in Languages, maxDepth \in 0..MaxDepthArg :
        LET r == LoadRecipeRecursive(FindItem(root, language)[1], language, maxDepth, 0) IN
        /\ ret' = [op |-> "LoadRecipeRecursive", root |-> root, language |-> language,
                   maxDepth |-> maxDepth, item |-> r.item, err |-> r.err]
        /\ UNCHANGED <<store, calls, last>>

DoGetAllResourcesForList ==
    /\ ret = NoCall
    /\ \E listID \in ListIDs, language \in RequestLanguages :
        \E r \in GetAllResourcesForList(listID, language) :
            /\ ret' = [op |-> "GetAllResourcesForList", listID |-> listID,
                       language |-> language, resources |-> r.resources, err |-> r.err,
                       list |-> r.list]
            /\ UNCHANGED <<store, calls, last>>

DoGetResourcesGroupedByAuctionHouse ==
    /\ ret = NoCall
    /\ \E listID \in ListIDs, language \in RequestLanguages :
        \E r \in GetResourcesGroupedByAuctionHouse(listID, language) :
            /\ ret' = [op |-> "GetResourcesGroupedByAuctionHouse", listID |-> listID,
                       language |-> language, grouped |-> r.grouped,
                       order |-> r.order, err |-> r.err, resources |-> r.resources]
            /\ UNCHANGED <<store, calls, last>>

DoGetUniqueRunesForList ==
    /\ ret = NoCall
    /\ \E listID \in ListIDs, language \in RequestLanguages :
        \E r \in GetUniqueRunesForList(listID, language) :
            /\ ret' = [op |-> "GetUniqueRunesForList", listID |-> listID,
                       language |-> language, runes |-> r.runes, err |-> r.err]
            /\ UNCHANGED <<store, calls, last>>

Next ==
    \/ DoLoadRecipeRecursive
    \/ Return

Spec == Init /\ [][Next]_vars

----------------------------------------------------------------------------
(* Properties of the loaded tree *)

\* the depths (root: 0) of the items of a loaded tree that have a recipe attached
RECURSIVE RecipeDepths(_, _)
RecipeDepths(item, d) ==
    IF item.Recipe = Nil THEN {}
    ELSE {d} \cup UNION {RecipeDepths(item.Recipe[1].Ingredients[k].Item, d + 1) :
                         k \in DOMAIN item.Recipe[1].Ingredients}

\* the items of a loaded tree that sit at depth target
RECURSIVE ItemsAtDepth(_, _, _)
ItemsAtDepth(item, d, target) ==
    IF d = target THEN {item}
    ELSE IF item.Recipe = Nil THEN {}
    ELSE UNION {ItemsAtDepth(item.Recipe[1].Ingredients[k].Item, d + 1, target) :
                k \in DOMAIN item.Recipe[1].Ingredients}

\* every item of a loaded tree, whatever its depth
RECURSIVE TreeItems(_)
TreeItems(item) ==
    {item} \cup
    (IF item.Recipe = Nil THEN {}
     ELSE UNION {TreeItems(item.Recipe[1].Ingredients[k].Item) :
                 k \in DOMAIN item.Recipe[1].Ingredients})

\* the store holds a chain of n + 1 recipes that starts at item id: id has a
\* recipe, one of its ingredients has a recipe, and so on n times
RECURSIVE StoreChain(_, _)
StoreChain(id, n) ==
    /\ id \in DOMAIN recipes
    /\ n > 0 => \E k \in DOMAIN recipes[id] : StoreChain(recipes[id][k].ItemID, n - 1)

\* no ingredient row of the store names an item that does not exist
NoDanglingIngredient ==
    \A id \in DOMAIN recipes : \A k \in DOMAIN recipes[id] : recipes[id][k].ItemID \in items

Loaded == ret.op = "LoadRecipeRecursive"

\* C1: after LoadRecipeRecursive(root, lang, maxDepth, 0) with maxDepth >= 1
\* returned nil, no item of the tree at depth >= maxDepth has a recipe attached,
\* and when the store holds a recipe chain longer than maxDepth from the root,
\* the deepest attached recipe is at depth exactly maxDepth - 1.
C1_DepthCap ==
    (Loaded /\ ret.maxDepth >= 1 /\ ret.err = NoError) =>
        /\ \A d \in RecipeDepths(ret.item, 0) : d <= ret.maxDepth - 1
        /\ StoreChain(ret.root, ret.maxDepth) => ret.maxDepth - 1 \in RecipeDepths(ret.item, 0)

\* a load with maxDepth >= 2 over a chain longer than maxDepth: an item at depth
\* maxDepth has a recipe in the store and none attached
C1_Witness ==
    /\ Loaded /\ ret.maxDepth >= 2 /\ ret.err = NoError
    /\ StoreChain(ret.root, ret.maxDepth)
    /\ ret.maxDepth - 1 \in RecipeDepths(ret.item, 0)
    /\ \E it \in ItemsAtDepth(ret.item, 0, ret.maxDepth) :
          it.ID \in DOMAIN recipes /\ it.Recipe = Nil

\* C10: a missing recipe is never an error.  A root without a recipe in the
\* store comes back with nil and no Recipe; no item of the tree whose id has no
\* recipe in the store has one attached; the only error a load returns is the
\* missing ingredient item, so a store without dangling ingredients never fails.
C10_NoRecipeIsNotAnError ==
    Loaded =>
        /\ ret.root \notin DOMAIN recipes => (ret.err = NoError /\ ret.item.Recipe = Nil)
        /\ \A it \in TreeItems(ret.item) : it.ID \notin DOMAIN recipes => it.Recipe = Nil
        /\ ret.err \in {NoError, ErrLoadIngredientItem}
        /\ NoDanglingIngredient => ret.err = NoError

\* a successful load whose root has a recipe and one of whose ingredients is a
\* base material: the ingredient's item is attached without a Recipe
C10_Witness ==
    /\ Loaded /\ ret.maxDepth >= 2 /\ ret.err = NoError
    /\ ret.item.Recipe # Nil
    /\ \E k \in DOMAIN ret.item.Recipe[1].Ingredients :
          LET it == ret.item.Recipe[1].Ingredients[k].Item IN
          it.ID \in items /\ it.ID \notin DOMAIN recipes /\ it.Recipe = Nil

\* the load of item id at depth d under the cap maxDepth comes, at id or below
\* it, to an ingredient row that names no item
RECURSIVE DanglingVisited(_, _, _)
DanglingVisited(id, d, maxDepth) ==
    /\ d < maxDepth
    /\ id \in DOMAIN recipes
    /\ \E k \in DOMAIN recipes[id] :
          \/ recipes[id][k].ItemID \notin items
          \/ DanglingVisited(recipes[id][k].ItemID, d + 1, maxDepth)

\* the ingredients of a loaded recipe whose Item is still the zero item
Unloaded(recipe) == {k \in DOMAIN recipe.Ingredients : recipe.Ingredients[k].Item.ID = 0}

\* C11: LoadRecipeRecursive returns an error exactly when the load visits,
\* at any depth below maxDepth, an ingredient whose item is missing; then the
\* root's first ingredient without an item is the one the failure came up
\* through, and no ingredient after it has an item.  A subtree that was
\* attached holds no ingredient without an item.
C11_MissingItemIsFatal ==
    Loaded =>
        /\ ret.err # NoError <=> DanglingVisited(ret.root, 0, ret.maxDepth)
        /\ ret.err # NoError =>
              /\ ret.item.Recipe # Nil
              /\ \E k \in Unloaded(ret.item.Recipe[1]) :
                    LET id == ret.item.Recipe[1].Ingredients[k].ItemID IN
                    /\ id \notin items \/ DanglingVisited(id, 1, ret.maxDepth)
                    /\ Unloaded(ret.item.Recipe[1]) = k..Len(ret.item.Recipe[1].Ingredients)
        /\ \A it \in TreeItems(ret.item) :
              (it.Recipe # Nil /\ (it # ret.item \/ ret.err = NoError)) =>
                  Unloaded(it.Recipe[1]) = {}

\* the missing item is met one level down: the error comes up through the
\* root's first ingredient, which the store holds, and the ingredient after it
\* is left without an item
C11_Witness ==
    /\ Loaded /\ ret.err # NoError
    /\ ret.item.Recipe # Nil
    /\ Len(ret.item.Recipe[1].Ingredients) = 2
    /\ ret.item.Recipe[1].Ingredients[1].ItemID \in items
    /\ Unloaded(ret.item.Recipe[1]) = {1, 2}

\* C12: a LoadRecipeRecursive that returns an error has attached nothing to
\* the caller's item: the root comes back without a recipe.
C12_NoPartialTreeOnError ==
    (Loaded /\ ret.err # NoError) => ret.item.Recipe = Nil

----------------------------------------------------------------------------
(* Specification SpecList: the aggregation over every recipes table and    *)
(* every workshop list within the bounds                                   *)

InitList ==
    /\ items = ItemIDs
    /\ recipes \in RecipeTables(ItemIDs, MaxIngredientRows, 1)
    /\ translations = DefaultTranslations
    /\ FixedTypes
    /\ FixedRunes
    /\ lists = {1}
    /\ listItems \in ListTables
    /\ ret = NoCall
    /\ calls = NoCalls
    /\ last = NoCall
    /\ listItemSeq = Len(listItems)

NextList ==
    \/ DoGetAllResourcesForList
    \/ Return

SpecList == InitList /\ [][NextList]_vars

----------------------------------------------------------------------------
(* Properties of the aggregate *)

Aggregated == ret.op = "GetAllResourcesForList"

AllItemIDs == ItemIDs \cup {DanglingItemID}

\* the entries of the returned slice that are about item id
ResultEntries(id) == {i \in DOMAIN ret.resources : ret.resources[i].ItemID = id}

\* TotalNeeded of item id in the returned slice; 0 when the slice has no entry
ResultTotal(id) ==
    IF ResultEntries(id) = {} THEN 0
    ELSE ret.resources[CHOOSE i \in ResultEntries(id) : TRUE].TotalNeeded

\* the ingredient rows of the store that name item id: <<recipe's item, position>>
IngredientRowsNaming(id) ==
    UNION {{<<a, k>> : k \in {j \in DOMAIN recipes[a] : recipes[a][j].ItemID = id}} :
           a \in DOMAIN recipes}

\* the rows of the list the call was about
CalledListRows == {e \in DOMAIN listItems : listItems[e].WorkshopListID = ret.listID}

\* C2: a list entry with quantity Q for item A whose recipe needs K of X, where
\* X has no recipe and no other path reaches X (that ingredient row is the only
\* one that names X, A is the item of no other entry and an ingredient of no
\* recipe), gives X the total Q*K, whether or not X is a list entry of its own.
C2_QuantityMultiplication ==
    (Aggregated /\ ret.err = NoError) =>
        \A x \in AllItemIDs \ DOMAIN recipes :
            LET rows == IngredientRowsNaming(x) IN
            Cardinality(rows) = 1 =>
                LET a == (CHOOSE r \in rows : TRUE)[1]
                    k == (CHOOSE r \in rows : TRUE)[2]
                    entries == {e \in CalledListRows : listItems[e].ItemID = a}
                IN (Cardinality(entries) = 1 /\ IngredientRowsNaming(a) = {}) =>
                       \A e \in entries :
                           /\ Cardinality(ResultEntries(x)) = 1
                           /\ ResultTotal(x) = listItems[e].Quantity * recipes[a][k].Quantity

\* Q = 2 of A, A needs K = 2 of X, X is a list entry too: X comes out with 4
C2_Witness ==
    /\ Aggregated /\ ret.err = NoError
    /\ \E e, f \in CalledListRows : \E k \in 1..MaxIngredientRows :
          LET a == listItems[e].ItemID
              x == listItems[f].ItemID
          IN /\ x \notin DOMAIN recipes
             /\ IngredientRowsNaming(x) = {<<a, k>>}
             /\ IngredientRowsNaming(a) = {}
             /\ listItems[e].Quantity = 2 /\ recipes[a][k].Quantity = 2
             /\ ResultTotal(x) = 4

\* what the loaded tree under a recipe pointer demands of item y: the sum, over
\* the ingredients from position k on and over everything below them, of the
\* quantities along the path times the multiplier
RECURSIVE TreeDemand(_, _, _)
RECURSIVE TreeDemandFrom(_, _, _, _)
TreeDemandFrom(ings, k, y, multiplier) ==
    IF k > Len(ings) THEN 0
    ELSE (IF ings[k].ItemID = y THEN ings[k].Quantity * multiplier ELSE 0)
         + TreeDemand(ings[k].Item.Recipe, y, ings[k].Quantity * multiplier)
         + TreeDemandFrom(ings, k + 1, y, multiplier)

TreeDemand(recipe, y, multiplier) ==
    IF recipe = Nil THEN 0 ELSE TreeDemandFrom(recipe[1].Ingredients, 1, y, multiplier)

\* the entries of the list as the call loaded them
LoadedEntries == ret.list[1].Items

\* what entry e of the loaded list contributes to item y
Contribution(entries, e, y) == TreeDemand(entries[e].Item.Recipe, y, entries[e].Quantity)

RECURSIVE SumContributions(_, _, _)
SumContributions(entries, e, y) ==
    IF e = 0 THEN 0 ELSE Contribution(entries, e, y) + SumContributions(entries, e - 1, y)

\* C3: the aggregate holds one entry for an item that the trees of the list
\* entries require, and its TotalNeeded is the sum of what every entry's tree
\* contributes; an item no tree requires has no entry.
C3_AccumulationAcrossEntries ==
    (Aggregated /\ ret.err = NoError) =>
        LET entries == LoadedEntries IN
        \A y \in AllItemIDs :
            LET total == SumContributions(entries, Len(entries), y) IN
            /\ ResultTotal(y) = total
            /\ Cardinality(ResultEntries(y)) = IF total > 0 THEN 1 ELSE 0

\* two entries whose trees both require y: y has one entry, with the sum
C3_Witness ==
    /\ Aggregated /\ ret.err = NoError
    /\ LET entries == LoadedEntries IN
       \E y \in AllItemIDs : \E e, f \in DOMAIN entries :
          /\ e # f
          /\ Contribution(entries, e, y) > 0 /\ Contribution(entries, f, y) > 0
          /\ Contribution(entries, e, y) # Contribution(entries, f, y)
          /\ ResultTotal(y) = Contribution(entries, e, y) + Contribution(entries, f, y)
          /\ Cardinality(ResultEntries(y)) = 1

\* C14: entry e asks for Q of A, row k of A's recipe needs K of B, B came out
\* of the load with its recipe attached and row j of that recipe needs J of C.
\* When no other path leads to B or C (no other ingredient row names B, C or
\* A, A is the item of no other entry and B of none) the result holds B with
\* Q*K and C with Q*K*J.
C14_IntermediateCountedTwice ==
    (Aggregated /\ ret.err = NoError) =>
        \A e \in CalledListRows :
            LET entry == LoadedEntries[e] IN
            entry.Item.Recipe # Nil =>
                \A k \in DOMAIN entry.Item.Recipe[1].Ingredients :
                    LET ingB == entry.Item.Recipe[1].Ingredients[k] IN
                    ingB.Item.Recipe # Nil =>
                        \A j \in DOMAIN ingB.Item.Recipe[1].Ingredients :
                            LET ingC == ingB.Item.Recipe[1].Ingredients[j] IN
                            (/\ IngredientRowsNaming(entry.ItemID) = {}
                             /\ IngredientRowsNaming(ingB.ItemID) = {<<entry.ItemID, k>>}
                             /\ IngredientRowsNaming(ingC.ItemID) = {<<ingB.ItemID, j>>}
                             /\ \A f \in CalledListRows :
                                   /\ listItems[f].ItemID = entry.ItemID => f = e
                                   /\ listItems[f].ItemID # ingB.ItemID) =>
                                /\ ResultTotal(ingB.ItemID) = entry.Quantity * ingB.Quantity
                                /\ ResultTotal(ingC.ItemID) =
                                       entry.Quantity * ingB.Quantity * ingC.Quantity

\* 2 of A, A needs 2 of B, B needs 2 of C: B comes out with 4 and C with 8
C14_Witness ==
    /\ Aggregated /\ ret.err = NoError
    /\ \E e \in CalledListRows :
          LET entry == LoadedEntries[e] IN
          /\ entry.Quantity = 2 /\ entry.Item.Recipe # Nil
          /\ Len(entry.Item.Recipe[1].Ingredients) = 1
          /\ LET ingB == entry.Item.Recipe[1].Ingredients[1] IN
             /\ ingB.Quantity = 2 /\ ingB.Item.Recipe # Nil
             /\ Len(ingB.Item.Recipe[1].Ingredients) = 1
             /\ LET ingC == ingB.Item.Recipe[1].Ingredients[1] IN
                /\ ingC.Quantity = 2
                /\ ingC.ItemID \notin {entry.ItemID, ingB.ItemID}
                /\ ResultTotal(ingB.ItemID) = 4 /\ ResultTotal(ingC.ItemID) = 8

\* the occurrences of ingredients in the loaded tree under a recipe pointer:
\* <<path of ingredient positions, item id, quantity scaled along the path>>
RECURSIVE Occurrences(_, _, _)
Occurrences(recipe, path, multiplier) ==
    IF recipe = Nil THEN {}
    ELSE UNION {LET ing == recipe[1].Ingredients[k]
                    at == Append(path, k)
                    scaled == ing.Quantity * multiplier
                IN {<<at, ing.ItemID, scaled>>} \cup Occurrences(ing.Item.Recipe, at, scaled) :
                k \in DOMAIN recipe[1].Ingredients}

\* the occurrences in the trees of all entries of the loaded list
ListOccurrences ==
    UNION {Occurrences(LoadedEntries[e].Item.Recipe, <<e>>, LoadedEntries[e].Quantity) :
           e \in DOMAIN LoadedEntries}

RECURSIVE SumScaled(_)
SumScaled(occ) ==
    IF occ = {} THEN 0
    ELSE LET o == CHOOSE o \in occ : TRUE IN o[3] + SumScaled(occ \ {o})

\* C15: the result of GetAllResourcesForList has exactly one entry per item id
\* that occurs as an ingredient anywhere in the loaded trees of the list entries
\* and no other entry; the entry's TotalNeeded is the sum over the occurrences
\* of the item of the scaled quantity, and so at least every single one of them.
C15_OneEntryPerItemWithSum ==
    (Aggregated /\ ret.err = NoError) =>
        LET occ == ListOccurrences
            res == ret.resources
        IN /\ {res[i].ItemID : i \in DOMAIN res} = {o[2] : o \in occ}
           /\ \A i, j \in DOMAIN res : res[i].ItemID = res[j].ItemID => i = j
           /\ \A i \in DOMAIN res :
                  LET mine == {o \in occ : o[2] = res[i].ItemID} IN
                  /\ res[i].TotalNeeded = SumScaled(mine)
                  /\ \A o \in mine : res[i].TotalNeeded >= o[3]

\* an item that occurs at two depths of one entry's tree: one entry, with the
\* sum, which is more than either occurrence
C15_Witness ==
    /\ Aggregated /\ ret.err = NoError
    /\ \E i \in DOMAIN ret.resources : \E o, q \in ListOccurrences :
          /\ o[2] = ret.resources[i].ItemID /\ q[2] = o[2]
          /\ o[1][1] = q[1][1] /\ Len(o[1]) < Len(q[1])
          /\ o[3] # q[3]
          /\ ret.resources[i].TotalNeeded >= o[3] + q[3]
          /\ Len(ret.resources) >= 2

\* the recipes of the store reach, from item id at depth d and below the cap of
\* the list loader, an ingredient row that names no item
RECURSIVE DanglingWithin(_, _)
DanglingWithin(id, d) ==
    /\ d < ListMaxDepth
    /\ id \in DOMAIN recipes
    /\ \E k \in DOMAIN recipes[id] :
          \/ recipes[id][k].ItemID \notin items
          \/ DanglingWithin(recipes[id][k].ItemID, d + 1)

DanglingInCalledList == \E e \in CalledListRows : DanglingWithin(listItems[e].ItemID, 0)

----------------------------------------------------------------------------
(* Specification SpecOrder: the aggregate of a list of items 1 and 2 over  *)
(* the recipes these two items can have                                    *)

InitOrder ==
    /\ items = ItemIDs
    /\ recipes \in RecipeTables({1, 2}, MaxIngredientRows, 1)
    /\ translations = DefaultTranslations
    /\ FixedTypes
    /\ FixedRunes
    /\ lists = {1}
    /\ listItems \in {<<[ID |-> 1, WorkshopListID |-> 1, ItemID |-> 1, Quantity |-> a],
                        [ID |-> 2, WorkshopListID |-> 1, ItemID |-> 2, Quantity |-> b]>> :
                      a \in Quantities, b \in Quantities}
    /\ ret = NoCall
    /\ calls = NoCalls
    /\ last = NoCall
    /\ listItemSeq = Len(listItems)

SpecOrder == InitOrder /\ [][NextList]_vars

\* the elements of seq in the order in which p, a sequence that holds the
\* positions 1..n for an n >= Len(seq), names them
Reordered(seq, p) ==
    LET order == SelectSeq(p, LAMBDA x : x <= Len(seq)) IN
    [k \in 1..Len(seq) |-> seq[order[k]]]

\* the loaded tree under a recipe pointer with the ingredients of every recipe
\* in the order p
RECURSIVE ReorderedRecipe(_, _)
ReorderedRecipe(recipe, p) ==
    IF recipe = Nil THEN Nil
    ELSE LET ings == Reordered(recipe[1].Ingredients, p) IN
         Some([recipe[1] EXCEPT !.Ingredients =
                  [k \in DOMAIN ings |->
                      [ings[k] EXCEPT !.Item.Recipe = ReorderedRecipe(@, p)]]])

\* the loaded entries in the order q, their trees in the order p
ReorderedList(entries, q, p) ==
    LET es == Reordered(entries, q) IN
    [k \in DOMAIN es |-> [es[k] EXCEPT !.Item.Recipe = ReorderedRecipe(@, p)]]

\* the <<item id, TotalNeeded>> pairs of a resource map
Totals(resourceMap) == {<<id, resourceMap[id].TotalNeeded>> : id \in DOMAIN resourceMap}

\* the <<item id, TotalNeeded>> pairs of the returned slice
ResultTotals == {<<ret.resources[i].ItemID, ret.resources[i].TotalNeeded>> :
                    i \in DOMAIN ret.resources}

\* C21: the aggregation of the loaded list gives the same total for every item
\* id when the entries are visited in any other order and the ingredients of
\* every recipe in any other order.
C21_TotalsIndependentOfOrder ==
    (Aggregated /\ ret.err = NoError) =>
        \A q \in Perms(1..MaxListEntries), p \in Perms(1..MaxIngredientRows) :
            Totals(AggregateList(ReorderedList(LoadedEntries, q, p), 1, EmptyMap))
                = ResultTotals

\* two entries whose trees require the same item in different quantities: the
\* other order of the entries visits the other occurrence of the item first
C21_Witness ==
    /\ Aggregated /\ ret.err = NoError
    /\ Len(LoadedEntries) = 2
    /\ \E y \in AllItemIDs :
          /\ Contribution(LoadedEntries, 1, y) > 0
          /\ Contribution(LoadedEntries, 2, y) > Contribution(LoadedEntries, 1, y)
          /\ <<y, Contribution(LoadedEntries, 1, y) + Contribution(LoadedEntries, 2, y)>>
                 \in ResultTotals
    /\ Reordered(LoadedEntries, <<2, 1>>)[1] = LoadedEntries[2]

\* what the recipes of the store demand of item y below item id, which sits
\* at depth d of the tree of a list entry, when an item at depth 3 counts as a
\* base resource: the quantities along every path of at most 3 ingredient rows
RECURSIVE CappedDemand(_, _, _, _)
RECURSIVE CappedDemandFrom(_, _, _, _, _)
CappedDemandFrom(id, k, y, multiplier, d) ==
    IF k > Len(recipes[id]) THEN 0
    ELSE LET row == recipes[id][k] IN
         (IF row.ItemID = y THEN row.Quantity * multiplier ELSE 0)
         + CappedDemand(row.ItemID, y, row.Quantity * multiplier, d + 1)
         + CappedDemandFrom(id, k + 1, y, multiplier, d)

CappedDemand(id, y, multiplier, d) ==
    IF d >= 3 \/ id \notin DOMAIN recipes THEN 0
    ELSE CappedDemandFrom(id, 1, y, multiplier, d)

RECURSIVE ListCappedDemand(_, _)
ListCappedDemand(e, y) ==
    IF e = 0 THEN 0
    ELSE (IF listItems[e].WorkshopListID = ret.listID
          THEN CappedDemand(listItems[e].ItemID, y, listItems[e].Quantity, 0)
          ELSE 0)
         + ListCappedDemand(e - 1, y)

\* C22: no ingredient sits deeper than depth 3 below a list entry; an
\* ingredient at depth 3 is recorded with its scaled quantity like any other;
\* and the recipe it has in the store adds nothing: the total of every item is
\* what the store demands along the paths of at most 3 ingredient rows (never
\* more, and exactly that when every ingredient item on them exists).
C22_CapItemIsBaseResource ==
    (Aggregated /\ ret.err = NoError) =>
        /\ \A o \in ListOccurrences :
              /\ Len(o[1]) <= 1 + 3
              /\ Len(o[1]) = 1 + 3 => ResultTotal(o[2]) >= o[3]
        /\ \A y \in AllItemIDs :
              LET capped == ListCappedDemand(Len(listItems), y) IN
              /\ ResultTotal(y) <= capped
              /\ ~DanglingInCalledList => ResultTotal(y) = capped

\* an entry for one item 1, which is made of two of itself: item 1 is met at
\* depth 3 with the quantity 8, has a recipe in the store, and comes out with
\* 2 + 4 + 8 and no more
C22_Witness ==
    /\ Aggregated /\ ret.err = NoError
    /\ \E o \in ListOccurrences :
          /\ Len(o[1]) = 1 + 3
          /\ o[2] \in DOMAIN recipes
          /\ o[3] = 8
          /\ ResultTotal(o[2]) = 14

----------------------------------------------------------------------------
(* Specification SpecGroup: the grouped view of a list that holds item 1,  *)
(* over the recipes of item 1, the names of its ingredients, their types   *)
(* and the display orders of the auction houses                            *)

\* the names an item can have in English: none, "A" or "B"
ItemNameTables == {EmptyMap, "en" :> <<65>>, "en" :> <<66>>}

\* types 1 and 2 are sold in auction houses 1 and 2, type 3 in none
GroupTypes ==
    (1 :> [AuctionHouseID |-> Some(1)]) @@ (2 :> [AuctionHouseID |-> Some(2)])
        @@ (3 :> [AuctionHouseID |-> Nil])

\* auction house a is named by the single byte 70 + a
GroupAuctionHouses ==
    {[a \in {1, 2} |-> [DisplayOrder |-> d[a], Names |-> ("en" :> <<70 + a>>)]] :
        d \in [{1, 2} -> {1, 2}]}

InitGroup ==
    /\ items = ItemIDs
    /\ recipes \in {c \in RecipeTables({1}, MaxIngredientRows, 1) :
                       \A a \in DOMAIN c : \A k \in DOMAIN c[a] : c[a][k].Quantity = 1}
    /\ translations \in {(1 :> ("en" :> <<65>>)) @@ t : t \in [ItemIDs \ {1} -> ItemNameTables]}
    /\ itemTypes \in {(1 :> 3) @@ t : t \in [ItemIDs \ {1} -> DOMAIN GroupTypes]}
    /\ types = GroupTypes
    /\ auctionHouses \in GroupAuctionHouses
    /\ FixedRunes
    /\ lists = {1}
    /\ listItems = <<[ID |-> 1, WorkshopListID |-> 1, ItemID |-> 1, Quantity |-> 1]>>
    /\ ret = NoCall
    /\ calls = NoCalls
    /\ last = NoCall
    /\ listItemSeq = Len(listItems)

NextGroup ==
    \/ DoGetResourcesGroupedByAuctionHouse
    \/ Return

SpecGroup == InitGroup /\ [][NextGroup]_vars

----------------------------------------------------------------------------
(* Properties of the grouped view *)

Grouped == ret.op = "GetResourcesGroupedByAuctionHouse"

\* the auction house the store links to the type of item id, if any
StoreAuctionHouse(id) ==
    IF /\ id \in items
       /\ itemTypes[id] \in DOMAIN types
       /\ types[itemTypes[id]].AuctionHouseID # Nil
       /\ types[itemTypes[id]].AuctionHouseID[1] \in DOMAIN auctionHouses
    THEN types[itemTypes[id]].AuctionHouseID
    ELSE Nil

\* the resources of the call whose item the store sells in no auction house
ResourcesLackingMarketplace ==
    {i \in DOMAIN ret.resources : StoreAuctionHouse(ret.resources[i].ItemID) = Nil}

\* C5: in the order list the named buckets come in ascending display order of
\* their auction house, the empty name is the last element when some resource
\* has no auction house, and the empty name is absent when every resource
\* has one.
C5_MarketplaceOrdering ==
    (Grouped /\ ret.err = NoError) =>
        /\ \A i, j \in DOMAIN ret.order :
              (i < j /\ ret.order[i] # <<>> /\ ret.order[j] # <<>>) =>
                  ret.grouped[ret.order[i]][1].AuctionHouseDisplayOrder
                      <= ret.grouped[ret.order[j]][1].AuctionHouseDisplayOrder
        /\ ResourcesLackingMarketplace # {} =>
              (ret.order # <<>> /\ ret.order[Len(ret.order)] = <<>>)
        /\ ResourcesLackingMarketplace = {} =>
              \A i \in DOMAIN ret.order : ret.order[i] # <<>>

\* C23: a resource whose item has a type that the store links to an auction
\* house carries the id, the name in the requested language and the display
\* order of that auction house; every other resource carries no auction house,
\* the empty name and the display order 0.
C23_MarketplaceOfItemType ==
    (Grouped /\ ret.err = NoError) =>
        \A i \in DOMAIN ret.resources :
            LET res == ret.resources[i]
                ah == StoreAuctionHouse(res.ItemID)
            IN IF ah # Nil
               THEN /\ res.AuctionHouseID = ah
                    /\ res.AuctionHouseDisplayOrder = auctionHouses[ah[1]].DisplayOrder
                    /\ res.AuctionHouseName =
                          IF ret.language \in DOMAIN auctionHouses[ah[1]].Names
                          THEN auctionHouses[ah[1]].Names[ret.language]
                          ELSE <<>>
               ELSE /\ res.AuctionHouseID = Nil
                    /\ res.AuctionHouseName = <<>>
                    /\ res.AuctionHouseDisplayOrder = 0

\* C6: every bucket holds the resources of its key, each once, and no resource
\* of a bucket has a name that sorts before the name of a resource ahead of it.
C6_AlphabeticalWithinBucket ==
    (Grouped /\ ret.err = NoError) =>
        \A key \in DOMAIN ret.grouped :
            LET bucket == ret.grouped[key] IN
            /\ \A i, j \in DOMAIN bucket : i < j => ~StrLess(bucket[j].Name, bucket[i].Name)
            /\ \A i, j \in DOMAIN bucket : bucket[i].ItemID = bucket[j].ItemID => i = j
            /\ {bucket[i].ItemID : i \in DOMAIN bucket} =
                   {ret.resources[i].ItemID :
                       i \in {n \in DOMAIN ret.resources :
                                 ret.resources[n].AuctionHouseName = key}}

\* the aggregator produced "B" ahead of "A" and the bucket holds "A" ahead of "B"
C6_Witness ==
    /\ Grouped /\ ret.err = NoError
    /\ \E key \in DOMAIN ret.grouped : \E i, j \in DOMAIN ret.resources :
          /\ i < j
          /\ ret.resources[i].AuctionHouseName = key
          /\ ret.resources[j].AuctionHouseName = key
          /\ ret.resources[i].Name = <<66>> /\ ret.resources[j].Name = <<65>>
          /\ Len(ret.grouped[key]) = 2
          /\ ret.grouped[key][1].Name = <<65>> /\ ret.grouped[key][2].Name = <<66>>

\* the places <<key, position>> of the buckets that hold resource i of the
\* slice the grouping received
PlacesOf(i) ==
    {<<key, n>> \in UNION {{<<k, m>> : m \in DOMAIN ret.grouped[k]} : k \in DOMAIN ret.grouped} :
        ret.grouped[key][n] = ret.resources[i]}

RECURSIVE BucketSizes(_)
BucketSizes(keys) ==
    IF keys = {} THEN 0
    ELSE LET k == CHOOSE x \in keys : TRUE IN Len(ret.grouped[k]) + BucketSizes(keys \ {k})

\* C27: every resource that the aggregator returned is at one place of the
\* buckets, in the bucket whose key is its auction house name (the empty name
\* when it carries no auction house); the buckets hold as many entries as the
\* aggregator returned resources; and every key of a bucket that has members
\* is once in the order list, which holds nothing else.
C27_BucketsPartitionResources ==
    (Grouped /\ ret.err = NoError) =>
        /\ \A i \in DOMAIN ret.resources :
              /\ Cardinality(PlacesOf(i)) = 1
              /\ \A place \in PlacesOf(i) : place[1] = ret.resources[i].AuctionHouseName
              /\ ret.resources[i].AuctionHouseID = Nil =>
                    \A place \in PlacesOf(i) : place[1] = <<>>
        /\ BucketSizes(DOMAIN ret.grouped) = Len(ret.resources)
        /\ \A key \in DOMAIN ret.grouped :
              Len(ret.grouped[key]) > 0 =>
                  Cardinality({n \in DOMAIN ret.order : ret.order[n] = key}) = 1
        /\ \A n \in DOMAIN ret.order : ret.order[n] \in DOMAIN ret.grouped

\* two resources that the store sells in different auction houses were
\* returned without one; both are in the bucket of the empty name, which is
\* the one key of the order list
C27_Witness ==
    /\ Grouped /\ ret.err = NoError
    /\ Len(ret.resources) = 2
    /\ StoreAuctionHouse(ret.resources[1].ItemID) # Nil
    /\ StoreAuctionHouse(ret.resources[2].ItemID) # Nil
    /\ StoreAuctionHouse(ret.resources[1].ItemID) # StoreAuctionHouse(ret.resources[2].ItemID)
    /\ DOMAIN ret.grouped = {<<>>}
    /\ Len(ret.grouped[<<>>]) = 2
    /\ ret.order = <<<<>>>>

----------------------------------------------------------------------------
(* Specification SpecGroupTwice: the caller of SpecGroup asks for the      *)
(* grouped view again and again and keeps the previous answer              *)

NextGroupTwice ==
    \/ DoGetResourcesGroupedByAuctionHouse
    \/ ReturnKeeping

SpecGroupTwice == InitGroup /\ [][NextGroupTwice]_vars

\* the position in the slice handed to the grouping of the resource of item id
InsertionIndex(id) == CHOOSE i \in DOMAIN ret.resources : ret.resources[i].ItemID = id

\* the previous call was the same call and succeeded as this one did
SameCallAsLast ==
    /\ last # NoCall /\ ret # NoCall
    /\ last.op = ret.op /\ last.listID = ret.listID /\ last.language = ret.language
    /\ last.err = NoError /\ ret.err = NoError

\* C16: in a bucket two resources of equal name stand in the order in which
\* the grouping received them, and a call returns in every bucket the sequence
\* that the previous call on the same store returned.
C16_StableAndRepeatable ==
    /\ (Grouped /\ ret.err = NoError) =>
          \A key \in DOMAIN ret.grouped :
              LET bucket == ret.grouped[key] IN
              \A i, j \in DOMAIN bucket :
                  (i < j /\ bucket[i].Name = bucket[j].Name) =>
                      InsertionIndex(bucket[i].ItemID) < InsertionIndex(bucket[j].ItemID)
    /\ (Grouped /\ SameCallAsLast) =>
          /\ DOMAIN ret.grouped = DOMAIN last.grouped
          /\ \A key \in DOMAIN ret.grouped : ret.grouped[key] = last.grouped[key]

----------------------------------------------------------------------------
(* Specification SpecGroupTies: the caller of SpecGroupTwice on the stores *)
(* where item 1 is made of items 2 and 3, whatever the types of the two    *)
(* and the display orders of the two auction houses                        *)

InitGroupTies ==
    /\ items = ItemIDs
    /\ recipes = (1 :> <<[ItemID |-> 2, Quantity |-> 1], [ItemID |-> 3, Quantity |-> 1]>>)
    /\ translations = DefaultTranslations
    /\ itemTypes \in {(1 :> 3) @@ t : t \in [ItemIDs \ {1} -> DOMAIN GroupTypes]}
    /\ types = GroupTypes
    /\ auctionHouses \in GroupAuctionHouses
    /\ FixedRunes
    /\ lists = {1}
    /\ listItems = <<[ID |-> 1, WorkshopListID |-> 1, ItemID |-> 1, Quantity |-> 1]>>
    /\ ret = NoCall
    /\ calls = NoCalls
    /\ last = NoCall
    /\ listItemSeq = Len(listItems)

SpecGroupTies == InitGroupTies /\ [][NextGroupTwice]_vars

----------------------------------------------------------------------------
(* Specification SpecRunes: the runes of a list that holds items 1 and 2,  *)
(* over the runes table, the stats of the two items and the translations   *)
(* of item 3, the item of the runes with an odd id                         *)

RuneWeights == {10, 30, 100}
StatTypeIDs == {1, 2}

\* rune id has the code <<100 + id>>; a rune with an odd id is item 3, one
\* with an even id has no item
RuneTables ==
    UNION {{[id \in 1..n |->
               [ID |-> id, Code |-> <<100 + id>>, StatTypeID |-> r[id].StatTypeID,
                Weight |-> r[id].Weight,
                ItemID |-> IF id % 2 = 1 THEN Some(3) ELSE Nil]] :
            r \in [1..n -> [StatTypeID : StatTypeIDs, Weight : RuneWeights]]} :
           n \in 0..MaxRunes}

\* the names of the item of a rune: none, English, French, or an empty English
\* name beside the French one
RuneItemNameTables ==
    {EmptyMap, "en" :> <<65>>, "fr" :> <<66>>, ("en" :> <<>>) @@ ("fr" :> <<66>>)}

InitRunes ==
    /\ items = ItemIDs
    /\ recipes = EmptyMap
    /\ translations \in {[DefaultTranslations EXCEPT ![3] = t] : t \in RuneItemNameTables}
    /\ FixedTypes
    /\ stats \in {(1 :> a) @@ (2 :> b) @@ (3 :> <<>>) :
                     a \in {<<>>, <<1>>, <<1, 2>>}, b \in {<<>>, <<1>>}}
    /\ runes \in RuneTables
    /\ lists = {1}
    /\ listItems = <<[ID |-> 1, WorkshopListID |-> 1, ItemID |-> 1, Quantity |-> 1],
                     [ID |-> 2, WorkshopListID |-> 1, ItemID |-> 2, Quantity |-> 1]>>
    /\ ret = NoCall
    /\ calls = NoCalls
    /\ last = NoCall
    /\ listItemSeq = Len(listItems)

NextRunes ==
    \/ DoGetUniqueRunesForList
    \/ Return

SpecRunes == InitRunes /\ [][NextRunes]_vars

----------------------------------------------------------------------------
(* Properties of the runes of a list *)

Runed == ret.op = "GetUniqueRunesForList"

\* the list rows through whose item's stats the store reaches the runes row n
RowsReaching(n) ==
    {e \in CalledListRows :
        /\ listItems[e].ItemID \in items
        /\ \E k \in DOMAIN stats[listItems[e].ItemID] :
              stats[listItems[e].ItemID][k] = runes[n].StatTypeID}

ReachableRuneIDs == {runes[n].ID : n \in {m \in DOMAIN runes : RowsReaching(m) # {}}}

\* C7: the returned slice holds every rune id that the stats of the list's
\* items reach, and each of them once.
C7_OneEntryPerRune ==
    (Runed /\ ret.err = NoError) =>
        /\ {ret.runes[i].RuneID : i \in DOMAIN ret.runes} = ReachableRuneIDs
        /\ Len(ret.runes) = Cardinality(ReachableRuneIDs)

\* a rune that both list items reach, returned once
C7_Witness ==
    /\ Runed /\ ret.err = NoError
    /\ \E n \in DOMAIN runes :
          /\ Cardinality(RowsReaching(n)) = 2
          /\ Cardinality({i \in DOMAIN ret.runes : ret.runes[i].RuneID = runes[n].ID}) = 1

\* C8: in the returned slice no entry has a weight below the weight of the
\* entry after it.
C8_WeightDescending ==
    (Runed /\ ret.err = NoError) =>
        \A i \in DOMAIN ret.runes :
            i < Len(ret.runes) => ret.runes[i].Weight >= ret.runes[i + 1].Weight

\* the rows hold the weights 10, 100, 30 and the call returns 100, 30, 10
C8_Witness ==
    /\ Runed /\ ret.err = NoError
    /\ Len(runes) = 3
    /\ runes[1].Weight = 10 /\ runes[2].Weight = 100 /\ runes[3].Weight = 30
    /\ Len(ret.runes) = 3
    /\ ret.runes[1].Weight = 100 /\ ret.runes[2].Weight = 30 /\ ret.runes[3].Weight = 10

\* the translations the store holds for the item of the rune with this id
\* (a translation with an empty name names nothing)
StoreRuneNames(runeID) ==
    LET row == runes[CHOOSE n \in DOMAIN runes : runes[n].ID = runeID] IN
    IF row.ItemID # Nil /\ row.ItemID[1] \in items
    THEN [l \in {m \in DOMAIN translations[row.ItemID[1]] :
                    translations[row.ItemID[1]][m] # <<>>} |->
             translations[row.ItemID[1]][l]]
    ELSE EmptyMap

\* C9: the name of a returned rune is the translation of its item in the
\* requested language when the store holds one; otherwise a translation of its
\* item in another language, and not the code, when the store holds one;
\* otherwise the code.
C9_NameFallbackChain ==
    (Runed /\ ret.err = NoError) =>
        \A i \in DOMAIN ret.runes :
            LET names == StoreRuneNames(ret.runes[i].RuneID) IN
            IF ret.language \in DOMAIN names
            THEN ret.runes[i].Name = names[ret.language]
            ELSE IF DOMAIN names # {}
                 THEN /\ ret.runes[i].Name \in {names[l] : l \in DOMAIN names}
                      /\ ret.runes[i].Name # ret.runes[i].Code
                 ELSE ret.runes[i].Name = ret.runes[i].Code

----------------------------------------------------------------------------
(* Specification SpecRuneCodes: the runes of SpecRunes, all of stat type 1 *)
(* and of one weight, over the codes column "code" can hold: size:50 and   *)
(* not null, the empty string included                                     *)

RuneCodeTables ==
    UNION {{[id \in 1..n |->
               [ID |-> id, Code |-> c[id], StatTypeID |-> 1, Weight |-> 10,
                ItemID |-> IF id % 2 = 1 THEN Some(3) ELSE Nil]] :
            c \in [1..n -> {<<>>, <<102>>}]} :
           n \in 0..MaxRunes}

InitRuneCodes ==
    /\ items = ItemIDs
    /\ recipes = EmptyMap
    /\ translations \in {[DefaultTranslations EXCEPT ![3] = t] : t \in RuneItemNameTables}
    /\ FixedTypes
    /\ stats \in {(1 :> a) @@ (2 :> b) @@ (3 :> <<>>) :
                     a \in {<<>>, <<1>>, <<1, 2>>}, b \in {<<>>, <<1>>}}
    /\ runes \in RuneCodeTables
    /\ lists = {1}
    /\ listItems = <<[ID |-> 1, WorkshopListID |-> 1, ItemID |-> 1, Quantity |-> 1],
                     [ID |-> 2, WorkshopListID |-> 1, ItemID |-> 2, Quantity |-> 1]>>
    /\ ret = NoCall
    /\ calls = NoCalls
    /\ last = NoCall
    /\ listItemSeq = Len(listItems)

SpecRuneCodes == InitRuneCodes /\ [][NextRunes]_vars

\* C18: every rune that GetUniqueRunesForList returns has a name that is not
\* the empty string, whatever the rune row, its item and the translations of
\* its item are.
C18_NameNeverEmpty ==
    (Runed /\ ret.err = NoError) =>
        \A i \in DOMAIN ret.runes : ret.runes[i].Name # <<>>

\* C18, amended: a returned rune has the empty name exactly when its code is
\* the empty string and the store holds no non-empty name of its item in the
\* requested language; a rune with a non-empty code always has a name.
C18_NameEmptyOnlyWithEmptyCode ==
    (Runed /\ ret.err = NoError) =>
        \A i \in DOMAIN ret.runes :
            /\ ret.runes[i].Name = <<>> <=>
                  /\ ret.runes[i].Code = <<>>
                  /\ ret.language \notin DOMAIN StoreRuneNames(ret.runes[i].RuneID)
            /\ ret.runes[i].Code # <<>> => ret.runes[i].Name # <<>>

\* a rune whose item has only an empty English name is named by its code, next
\* to a rune without item and without code, which has no name
C18_Witness ==
    /\ Runed /\ ret.err = NoError
    /\ translations[3] = ("en" :> <<>>) @@ ("fr" :> <<66>>)
    /\ \E i, j \in DOMAIN ret.runes :
          /\ ret.runes[i].RuneID = 1
          /\ ret.runes[i].Code # <<>> /\ ret.runes[i].Name = ret.runes[i].Code
          /\ ret.runes[j].RuneID = 2
          /\ ret.runes[j].Code = <<>> /\ ret.runes[j].Name = <<>>

----------------------------------------------------------------------------
(* Specification SpecRuneTrees: the runes of a list that holds item 1,     *)
(* over the recipes of item 1 and the stats of every item; rune 1 is of    *)
(* stat type 1 and rune 2 of stat type 2                                   *)

InitRuneTrees ==
    /\ items = ItemIDs
    /\ recipes \in {c \in RecipeTables({1}, MaxIngredientRows, 1) :
                       \A a \in DOMAIN c : \A k \in DOMAIN c[a] : c[a][k].Quantity = 1}
    /\ translations = DefaultTranslations
    /\ FixedTypes
    /\ stats \in [ItemIDs -> {<<>>, <<1>>, <<2>>, <<1, 2>>}]
    /\ runes = <<[ID |-> 1, Code |-> <<101>>, StatTypeID |-> 1, Weight |-> 10,
                  ItemID |-> Some(3)],
                 [ID |-> 2, Code |-> <<102>>, StatTypeID |-> 2, Weight |-> 30,
                  ItemID |-> Nil]>>
    /\ lists = {1}
    /\ listItems = <<[ID |-> 1, WorkshopListID |-> 1, ItemID |-> 1, Quantity |-> 1]>>
    /\ ret = NoCall
    /\ calls = NoCalls
    /\ last = NoCall
    /\ listItemSeq = Len(listItems)

SpecRuneTrees == InitRuneTrees /\ [][NextRunes]_vars

\* the stat types of the item_stats rows of the items that are entries of
\* the list the call was about
DirectStatTypes ==
    UNION {{stats[listItems[e].ItemID][k] : k \in DOMAIN stats[listItems[e].ItemID]} :
           e \in {f \in CalledListRows : listItems[f].ItemID \in items}}

\* the items that the recipes of the store make an ingredient of item id
\* within n levels
RECURSIVE IngredientsBelow(_, _)
IngredientsBelow(id, n) ==
    IF n = 0 \/ id \notin DOMAIN recipes THEN {}
    ELSE UNION {{recipes[id][k].ItemID} \cup IngredientsBelow(recipes[id][k].ItemID, n - 1) :
                k \in DOMAIN recipes[id]}

\* C24: every returned rune is of a stat type that an item_stats row of a
\* direct entry of the list carries; a rune whose stat type only items below
\* the entries carry is not returned.
C24_OnlyDirectEntryStats ==
    (Runed /\ ret.err = NoError) =>
        \A i \in DOMAIN ret.runes :
            \E n \in DOMAIN runes :
                /\ runes[n].ID = ret.runes[i].RuneID
                /\ runes[n].StatTypeID \in DirectStatTypes

\* item 1 carries stat type 1; an ingredient of item 1 that exists, and no
\* entry, carries stat type 2: rune 1 is returned and rune 2 is not
C24_Witness ==
    /\ Runed /\ ret.err = NoError
    /\ DirectStatTypes = {1}
    /\ \E y \in (IngredientsBelow(1, ListMaxDepth) \cap items) \ {1} : stats[y] = <<2>>
    /\ Len(ret.runes) = 1 /\ ret.runes[1].RuneID = 1

----------------------------------------------------------------------------
(* Specification SpecRunesTwice: the caller of SpecRunes asks for the      *)
(* runes again and again and keeps the previous answer                     *)

NextRunesTwice ==
    \/ DoGetUniqueRunesForList
    \/ ReturnKeeping

SpecRunesTwice == InitRunes /\ [][NextRunesTwice]_vars

\* C17: a call of GetUniqueRunesForList returns the runes in the sequence in
\* which the previous call on the same list and store returned them, runes
\* of equal weight included.
C17_RuneOrderRepeatable ==
    (Runed /\ SameCallAsLast) => ret.runes = last.runes

----------------------------------------------------------------------------
(* Specification SpecReads: a caller makes the four reading calls in any   *)
(* order, against a store with one list, the recipe of item 1, one stat    *)
(* and at most one rune                                                    *)

InitReads ==
    /\ items = ItemIDs
    /\ recipes \in {c \in RecipeTables({1}, MaxIngredientRows, 1) :
                       \A a \in DOMAIN c : \A k \in DOMAIN c[a] : c[a][k].Quantity = 1}
    /\ translations = DefaultTranslations
    /\ FixedTypes
    /\ stats = (1 :> <<1>>) @@ (2 :> <<>>) @@ (3 :> <<>>)
    /\ runes \in {t \in RuneCodeTables : Len(t) <= 1}
    /\ lists = {1}
    /\ listItems = <<[ID |-> 1, WorkshopListID |-> 1, ItemID |-> 1, Quantity |-> 1]>>
    /\ ret = NoCall
    /\ calls = NoCalls
    /\ last = NoCall
    /\ listItemSeq = Len(listItems)

NextReads ==
    \/ DoLoadRecipeRecursive
    \/ DoGetAllResourcesForList
    \/ DoGetResourcesGroupedByAuctionHouse
    \/ DoGetUniqueRunesForList
    \/ ReturnKeeping

SpecReads == InitReads /\ [][NextReads]_vars

\* C19: no step of LoadRecipeRecursive, GetAllResourcesForList,
\* GetResourcesGroupedByAuctionHouse or GetUniqueRunesForList, whether the call
\* succeeds or fails, changes a table of the store; so the store after any
\* sequence of them is the store before it.
C19_StoreUnchanged == [][store' = store]_vars

\* a load that failed and left a recipe attached to the caller's item, then a
\* rune call that succeeded, against a store that still holds the dangling
\* row and every translation
C19_Witness ==
    /\ last.op = "LoadRecipeRecursive" /\ last.err # NoError
    /\ last.item.Recipe # Nil
    /\ ret.op = "GetUniqueRunesForList" /\ ret.err = NoError /\ Len(ret.runes) = 1
    /\ \E k \in DOMAIN recipes[1] : recipes[1][k].ItemID = DanglingItemID
    /\ translations = DefaultTranslations

----------------------------------------------------------------------------
(* LoadRecipeRecursive one store lookup at a time.  The recursion is a     *)
(* stack of frames, one per call of LoadRecipeRecursive that has not       *)
(* returned: the item the call was handed, as far as it has built it, and  *)
(* the index of the ingredient it is at (0: the recipe is not looked up    *)
(* yet).  A Go routine whose stack outgrows its limit dies.                *)

\* frames a stack can hold: more than any load within the depth cap needs
StackLimit == MaxDepthArg + 3

Frame(item) == [item |-> item, i |-> 0]

\* LoadRecipeRecursive(&item, language, maxDepth, 0) before its first statement
StartLoad(item) ==
    [stack |-> <<Frame(item)>>, done |-> FALSE, fatal |-> FALSE,
     item |-> item, err |-> NoError]

\* the top frame returns err to the frame below it: the caller of the load
\* gets the root item and the error; a frame that gets an error returns it in
\* turn; a frame that gets nil attaches the item and moves to the next
\* ingredient
RECURSIVE ReturnFromFrame(_, _)
ReturnFromFrame(stack, err) ==
    LET n == Len(stack) IN
    IF n = 1
    THEN [stack |-> <<>>, done |-> TRUE, fatal |-> FALSE,
          item |-> stack[1].item, err |-> err]
    ELSE IF SubLoadFailed(err) THEN ReturnFromFrame(SubSeq(stack, 1, n - 1), err)
    ELSE LET parent == stack[n - 1] IN
         [stack |-> Append(SubSeq(stack, 1, n - 2),
                       [parent EXCEPT
                           !.item.Recipe[1].Ingredients[parent.i].Item = stack[n].item,
                           !.i = parent.i + 1]),
          done |-> FALSE, fatal |-> FALSE, item |-> stack[1].item, err |-> NoError]

\* the next statement of the top frame that returns or reads the store
LoadStep(load, language, maxDepth) ==
    LET n == Len(load.stack)
        f == load.stack[n]
    IN IF f.i = 0
       THEN IF DepthReached(n - 1, maxDepth) THEN ReturnFromFrame(load.stack, NoError)
            ELSE LET found == FindRecipe(f.item.ID) IN
                 IF found.err # NoError
                 THEN IF IsBaseMaterial(found.err)
                      THEN ReturnFromFrame(load.stack, NoError)
                      ELSE ReturnFromFrame(load.stack, ErrLoadRecipe)
                 ELSE [load EXCEPT !.stack[n] =
                          [item |-> [f.item EXCEPT !.Recipe = Some(found.recipe)],
                           i |-> 1]]
       ELSE IF f.i > Len(f.item.Recipe[1].Ingredients)
            THEN ReturnFromFrame(load.stack, NoError)
            ELSE LET found == FindItem(f.item.Recipe[1].Ingredients[f.i].ItemID, language) IN
                 IF found = Nil THEN ReturnFromFrame(load.stack, ErrLoadIngredientItem)
                 ELSE IF n >= StackLimit THEN [load EXCEPT !.fatal = TRUE]
                 ELSE [load EXCEPT !.stack = Append(load.stack, Frame(found[1]))]

\* the one caller of the specifications that run one call at a time
Caller == 1

\* a caller that holds no result and has no call in progress calls
\* LoadRecipeRecursive(&item, language, maxDepth, 0) for an item it resolved
BeginLoadRecipeRecursive ==
    /\ ret = NoCall
    /\ calls = NoCalls
    /\ \E root \in items, language \in RequestLanguages, maxDepth \in 0..MaxDepthArg :
          calls' = (Caller :> [op |-> "LoadRecipeRecursive", root |-> root,
                               language |-> language, maxDepth |-> maxDepth,
                               load |-> StartLoad(FindItem(root, language)[1])])
    /\ UNCHANGED <<store, ret, last>>

\* the call in progress goes one lookup further
StepLoadRecipeRecursive ==
    /\ Caller \in DOMAIN calls
    /\ ~calls[Caller].load.done /\ ~calls[Caller].load.fatal
    /\ calls' = [calls EXCEPT ![Caller].load =
                    LoadStep(@, calls[Caller].language, calls[Caller].maxDepth)]
    /\ UNCHANGED <<store, ret, last>>

\* the call hands the caller its item and its error
EndLoadRecipeRecursive ==
    /\ Caller \in DOMAIN calls
    /\ calls[Caller].load.done
    /\ ret' = [op |-> "LoadRecipeRecursive", root |-> calls[Caller].root,
               language |-> calls[Caller].language, maxDepth |-> calls[Caller].maxDepth,
               item |-> calls[Caller].load.item, err |-> calls[Caller].load.err]
    /\ calls' = NoCalls
    /\ UNCHANGED <<store, last>>

\* recipes for items 1 and 2 (each may be an ingredient of the other, or of
\* itself), every quantity 1
InitSteps ==
    /\ items = ItemIDs
    /\ recipes \in {c \in RecipeTables({1, 2}, MaxIngredientRows, 1) :
                       \A a \in DOMAIN c : \A k \in DOMAIN c[a] : c[a][k].Quantity = 1}
    /\ translations = DefaultTranslations
    /\ FixedTypes
    /\ FixedRunes
    /\ lists = {1}
    /\ listItems = <<>>
    /\ ret = NoCall
    /\ calls = NoCalls
    /\ last = NoCall
    /\ listItemSeq = Len(listItems)

NextSteps ==
    \/ BeginLoadRecipeRecursive
    \/ StepLoadRecipeRecursive
    \/ EndLoadRecipeRecursive
    \/ Return

\* a call that has begun keeps running: the Go routine that runs it is
\* scheduled again and every store lookup returns
SpecSteps ==
    /\ InitSteps /\ [][NextSteps]_vars
    /\ WF_vars(StepLoadRecipeRecursive) /\ WF_vars(EndLoadRecipeRecursive)

\* item id is, directly or through other recipes, an ingredient of itself
RECURSIVE ReachesWithin(_, _, _)
ReachesWithin(from, to, n) ==
    /\ n > 0
    /\ from \in DOMAIN recipes
    /\ \E k \in DOMAIN recipes[from] :
          \/ recipes[from][k].ItemID = to
          \/ ReachesWithin(recipes[from][k].ItemID, to, n - 1)

Cyclic(id) == ReachesWithin(id, id, Cardinality(ItemIDs))

\* C13: a LoadRecipeRecursive that has begun returns, whatever the recipes
\* (cyclic ones included) and whatever maxDepth; and in the tree it built no
\* recipe is attached at depth maxDepth or below, so the tree is finite.
C13_LoadTerminates ==
    /\ (calls # NoCalls) ~> (calls = NoCalls /\ Loaded)
    /\ [](Loaded => \A d \in RecipeDepths(ret.item, 0) : d < ret.maxDepth)

\* a load over an item that is its own ingredient has returned; its tree goes
\* down to depth maxDepth - 1 and is the tree the recursive definition gives
C13_Witness ==
    /\ Loaded /\ calls = NoCalls
    /\ Cyclic(ret.root)
    /\ ret.maxDepth >= 2 /\ ret.err = NoError
    /\ ret.maxDepth - 1 \in RecipeDepths(ret.item, 0)
    /\ LET r == LoadRecipeRecursive(FindItem(ret.root, ret.language)[1], ret.language,
                                    ret.maxDepth, 0)
       IN ret.item = r.item /\ ret.err = r.err

----------------------------------------------------------------------------
(* GetAllResourcesForList and GetUniqueRunesForList one store lookup at a  *)
(* time, by two callers at once.  A call in progress has its own locals:   *)
(* the list it was handed, the entry whose recipe it loads and the stack   *)
(* of that load.  The maps are built after the last lookup.                *)

Callers == {1, 2}

ListOps == {"GetAllResourcesForList", "GetUniqueRunesForList"}

\* the call before its first statement
StartListCall(op, listID, language) ==
    [op |-> op, listID |-> listID, language |-> language, pc |-> "first",
     rows |-> <<>>, i |-> 0, load |-> StartLoad(ZeroItem), err |-> NoError]

\* for i := range list.Items: the load of entry i begins, or the loop is over
NextEntry(call) ==
    IF call.i > Len(call.rows)
    THEN [call EXCEPT !.pc = "done", !.load = StartLoad(ZeroItem)]
    ELSE [call EXCEPT !.pc = "load", !.load = StartLoad(call.rows[call.i].Item)]

\* the next store lookup of GetWorkshopListByID: First with its Preloads, then
\* the lookups of LoadRecipeRecursive(&list.Items[i].Item, language, 3, 0)
ListCallStep(call) ==
    IF call.pc = "first"
    THEN IF call.listID \notin lists
         THEN [call EXCEPT !.pc = "done", !.err = ErrGetWorkshopList]
         ELSE NextEntry([call EXCEPT !.rows = PreloadedItems(call.listID, call.language),
                                     !.i = 1])
    ELSE LET l == LoadStep(call.load, call.language, ListMaxDepth) IN
         IF ~l.done THEN [call EXCEPT !.load = l]
         ELSE IF LoadErrorAborts(l.err)
              THEN [call EXCEPT !.pc = "done", !.err = l.err,
                                !.load = StartLoad(ZeroItem)]
              ELSE NextEntry([call EXCEPT !.rows[call.i].Item = l.item,
                                          !.i = call.i + 1])

\* a list that the service keeps in one place for all the calls in progress
ListShared(c) == calls[CHOOSE d \in DOMAIN calls : \A e \in DOMAIN calls : d <= e].rows

\* list.Items of the call of c: list is a local of the call
ListLocal(c) == calls[c].rows

\* what the call of c can return once its lookups are done
ListCallResults(c) ==
    LET call == calls[c]
        head == [op |-> call.op, listID |-> call.listID, language |-> call.language,
                 caller |-> c]
    IN IF call.op = "GetAllResourcesForList"
       THEN IF call.err # NoError
            THEN {head @@ [resources |-> <<>>, err |-> call.err, list |-> Nil]}
            ELSE {head @@ [resources |-> r, err |-> NoError,
                           list |-> Some([ID |-> call.listID, Items |-> ListLocal(c)])] :
                     r \in ResourceSlices(ListLocal(c))}
       ELSE IF call.err # NoError
            THEN {head @@ [runes |-> <<>>, err |-> call.err]}
            ELSE {head @@ [runes |-> r, err |-> NoError] :
                     r \in RuneSlices(ListLocal(c), call.language)}

BeginListCall(c) ==
    /\ c \notin DOMAIN calls
    /\ \E op \in ListOps, listID \in ListIDs, language \in RequestLanguages :
          calls' = calls @@ (c :> StartListCall(op, listID, language))
    /\ UNCHANGED <<store, ret, last>>

\* the call of c goes one lookup further, whatever the other call is at
StepListCall(c) ==
    /\ c \in DOMAIN calls
    /\ calls[c].pc # "done"
    /\ calls' = [calls EXCEPT ![c] = ListCallStep(@)]
    /\ UNCHANGED <<store, ret, last>>

\* the call of c returns
EndListCall(c) ==
    /\ c \in DOMAIN calls
    /\ calls[c].pc = "done"
    /\ ret = NoCall
    /\ ret' \in ListCallResults(c)
    /\ calls' = [d \in DOMAIN calls \ {c} |-> calls[d]]
    /\ UNCHANGED <<store, last>>

\* the catalogues of the two callers: item 1 made of 2 x item 2 and item 3 with
\* item 2 made of item 3; item 1 made of itself; item 1 made of item 2 and of
\* an item that does not exist
CallerRecipeTables ==
    {(1 :> <<[ItemID |-> 2, Quantity |-> 2], [ItemID |-> 3, Quantity |-> 1]>>)
        @@ (2 :> <<[ItemID |-> 3, Quantity |-> 2]>>),
     (1 :> <<[ItemID |-> 1, Quantity |-> 2]>>),
     (1 :> <<[ItemID |-> 2, Quantity |-> 1], [ItemID |-> DanglingItemID, Quantity |-> 1]>>)}

InitCallers ==
    /\ items = ItemIDs
    /\ recipes \in CallerRecipeTables
    /\ translations = DefaultTranslations
    /\ FixedTypes
    /\ stats = (1 :> <<1>>) @@ (2 :> <<1>>) @@ (3 :> <<>>)
    /\ runes = <<[ID |-> 1, Code |-> <<101>>, StatTypeID |-> 1, Weight |-> 10,
                  ItemID |-> Some(3)],
                 [ID |-> 2, Code |-> <<102>>, StatTypeID |-> 1, Weight |-> 30,
                  ItemID |-> Nil]>>
    /\ lists = {1}
    /\ listItems = <<[ID |-> 1, WorkshopListID |-> 1, ItemID |-> 1, Quantity |-> 1],
                     [ID |-> 2, WorkshopListID |-> 1, ItemID |-> 2, Quantity |-> 2]>>
    /\ ret = NoCall
    /\ calls = NoCalls
    /\ last = NoCall
    /\ listItemSeq = Len(listItems)

NextCallers ==
    \/ \E c \in Callers : BeginListCall(c)
    \/ \E c \in Callers : StepListCall(c)
    \/ \E c \in Callers : EndListCall(c)
    \/ Return

SpecCallers == InitCallers /\ [][NextCallers]_vars

\* C20: whatever the other caller did in the meantime, a call that ran one
\* lookup at a time returns a result that the same call returns when it runs
\* alone against the store: the list, the resources and the error of
\* GetAllResourcesForList, the runes and the error of GetUniqueRunesForList.
C20_NoInterference ==
    /\ Aggregated =>
          [resources |-> ret.resources, err |-> ret.err, list |-> ret.list]
              \in GetAllResourcesForList(ret.listID, ret.language)
    /\ Runed =>
          [runes |-> ret.runes, err |-> ret.err]
              \in GetUniqueRunesForList(ret.listID, ret.language)

\* caller 2 is handed two resources while the call of caller 1, which began
\* first and is still two frames deep in a load, has an entry loaded already
C20_Witness ==
    /\ Aggregated /\ ret.err = NoError /\ ret.caller = 2
    /\ Len(ret.resources) = 2
    /\ 1 \in DOMAIN calls
    /\ calls[1].pc = "load" /\ calls[1].i = 2 /\ Len(calls[1].load.stack) >= 2
    /\ calls[1].rows[1].Item.Recipe # Nil

----------------------------------------------------------------------------
(* The writers of workshop_database.go.  Table workshop_list_items has the *)
(* constraints that the tags of WorkshopListItemModel declare: the primary *)
(* key id, and one plain index on each of workshop_list_id and item_id.    *)
(* A statement is atomic; a call runs its statements one after the other   *)
(* outside any transaction.  updated_at and created_at are not part of the *)
(* state, so the update of the list's updated_at changes nothing here.     *)

\* Quantity is a Go int: 32 bits on a 32-bit build, 64 bits on a 64-bit one,
\* and += wraps around at either width.  The model computes with the 32-bit
\* int.
MaxInt == 2147483647
MinInt == (-MaxInt) - 1

\* a + b on int, computed without leaving the range on the way
AddInt(a, b) ==
    IF a > 0 /\ b > 0 /\ a > MaxInt - b
    THEN ((a - MaxInt) - 1) + ((b - MaxInt) - 1)
    ELSE IF a < 0 /\ b < 0 /\ a < MinInt - b
         THEN ((a + MaxInt) + 1) + ((b + MaxInt) + 1)
         ELSE a + b

\* if quantity < 1 { quantity = 1 }
AtLeastOne(quantity) == IF quantity < 1 THEN 1 ELSE quantity

\* the part of the store the writers of workshop lists touch
ListStore == [lists |-> lists, listItems |-> listItems, listItemSeq |-> listItemSeq]

\* Where("workshop_list_id = ? AND item_id = ?", listID, itemID).First(&existingItem):
\* the matching row of the smallest id, or record not found
FirstListItem(db, listID, itemID) ==
    LET m == {k \in DOMAIN db.listItems : /\ db.listItems[k].WorkshopListID = listID
                                          /\ db.listItems[k].ItemID = itemID}
    IN IF m = {} THEN Nil
       ELSE Some(db.listItems[CHOOSE k \in m :
                                  \A j \in m : db.listItems[k].ID <= db.listItems[j].ID])

\* First(&item, itemID): the row of that id
ListItemByID(db, rowID) ==
    LET m == {k \in DOMAIN db.listItems : db.listItems[k].ID = rowID}
    IN IF m = {} THEN Nil ELSE Some(db.listItems[CHOOSE k \in m : TRUE])

\* db.Save(&existingItem): UPDATE ... WHERE id = existingItem.ID of every column,
\* and when that updates no row, INSERT of the row with its id
SaveListItem(db, row) ==
    IF \E k \in DOMAIN db.listItems : db.listItems[k].ID = row.ID
    THEN [db EXCEPT !.listItems = [k \in DOMAIN db.listItems |->
                                      IF db.listItems[k].ID = row.ID THEN row
                                      ELSE db.listItems[k]]]
    ELSE [db EXCEPT !.listItems = Append(db.listItems, row)]

\* db.Create(item): INSERT, the id is the next value of the sequence
CreateListItem(db, row) ==
    [db EXCEPT !.listItems = Append(db.listItems, [row EXCEPT !.ID = db.listItemSeq + 1]),
               !.listItemSeq = db.listItemSeq + 1]

\* Where("id = ?", itemID).Updates(map{"quantity", "notes", "updated_at"})
UpdateListItemRow(db, rowID, quantity, notes) ==
    [db EXCEPT !.listItems = [k \in DOMAIN db.listItems |->
                                 IF db.listItems[k].ID = rowID
                                 THEN [db.listItems[k] EXCEPT !.Quantity = quantity,
                                                              !.Notes = notes]
                                 ELSE db.listItems[k]]]

\* Delete(&WorkshopListItemModel{}, itemID)
DeleteListItemRow(db, rowID) ==
    [db EXCEPT !.listItems = SelectSeq(db.listItems, LAMBDA r : r.ID # rowID)]

\* Where("workshop_list_id = ?", listID).Delete(&WorkshopListItemModel{})
DeleteListItemsOf(db, listID) ==
    [db EXCEPT !.listItems = SelectSeq(db.listItems, LAMBDA r : r.WorkshopListID # listID)]

\* Delete(&WorkshopListModel{}, listID)
DeleteListRow(db, listID) == [db EXCEPT !.lists = db.lists \ {listID}]

ErrListItemNotFound == "workshop list item not found"

\* a call of a writer before its first statement; rowID is the itemID
\* argument of UpdateWorkshopListItem and RemoveItemFromWorkshopList
StartWriterCall(op, listID, itemID, rowID, quantity, notes) ==
    [op |-> op, listID |-> listID, itemID |-> itemID, rowID |-> rowID,
     quantity |-> quantity, notes |-> notes, pc |-> "first", given |-> quantity,
     existingItem |-> Nil, item |-> Nil, err |-> NoError]

\* the next statement of AddItemToWorkshopList
AddItemToWorkshopListStep(call, db) ==
    IF call.pc = "first"
    THEN LET existing == FirstListItem(db, call.listID, call.itemID) IN
         IF existing # Nil
         THEN [call |-> [call EXCEPT !.pc = "save",
                             !.quantity = AtLeastOne(call.quantity),
                             !.existingItem = existing],
               db |-> db]
         ELSE [call |-> [call EXCEPT !.pc = "create",
                             !.quantity = AtLeastOne(call.quantity)],
               db |-> db]
    ELSE IF call.pc = "save"
    THEN LET row == [call.existingItem[1] EXCEPT
                        !.Quantity = AddInt(@, call.quantity),
                        !.Notes = IF call.notes # <<>> THEN call.notes ELSE @]
         IN [call |-> [call EXCEPT !.pc = "done", !.item = Some(row)],
             db |-> SaveListItem(db, row)]
    ELSE LET row == [ID |-> 0, WorkshopListID |-> call.listID, ItemID |-> call.itemID,
                     Quantity |-> call.quantity, Notes |-> call.notes]
             created == CreateListItem(db, row)
         IN [call |-> [call EXCEPT !.pc = "done",
                           !.item = Some(created.listItems[Len(created.listItems)])],
             db |-> created]

\* UpdateWorkshopListItem is one statement
UpdateWorkshopListItemStep(call, db) ==
    [call |-> [call EXCEPT !.pc = "done", !.quantity = AtLeastOne(call.quantity)],
     db |-> UpdateListItemRow(db, call.rowID, AtLeastOne(call.quantity), call.notes)]

\* the next statement of RemoveItemFromWorkshopList
RemoveItemFromWorkshopListStep(call, db) ==
    IF call.pc = "first"
    THEN LET item == ListItemByID(db, call.rowID) IN
         IF item = Nil
         THEN [call |-> [call EXCEPT !.pc = "done", !.err = ErrListItemNotFound], db |-> db]
         ELSE [call |-> [call EXCEPT !.pc = "delete", !.listID = item[1].WorkshopListID],
               db |-> db]
    ELSE [call |-> [call EXCEPT !.pc = "done"], db |-> DeleteListItemRow(db, call.rowID)]

\* the next statement of DeleteWorkshopList: the items first, then the list
DeleteWorkshopListStep(call, db) ==
    IF call.pc = "first"
    THEN [call |-> [call EXCEPT !.pc = "list"], db |-> DeleteListItemsOf(db, call.listID)]
    ELSE [call |-> [call EXCEPT !.pc = "done"], db |-> DeleteListRow(db, call.listID)]

WriterStep(call, db) ==
    IF call.op = "AddItemToWorkshopList" THEN AddItemToWorkshopListStep(call, db)
    ELSE IF call.op = "UpdateWorkshopListItem" THEN UpdateWorkshopListItemStep(call, db)
    ELSE IF call.op = "RemoveItemFromWorkshopList"
         THEN RemoveItemFromWorkshopListStep(call, db)
         ELSE DeleteWorkshopListStep(call, db)

\* the whole call, when no other call runs between its statements
RECURSIVE RunWriter(_, _)
RunWriter(call, db) ==
    IF call.pc = "done" THEN [call |-> call, db |-> db]
    ELSE LET r == WriterStep(call, db) IN RunWriter(r.call, r.db)

\* what the caller is handed
WriterResult(call) ==
    [op |-> call.op, listID |-> call.listID, itemID |-> call.itemID,
     rowID |-> call.rowID, quantity |-> call.given, notes |-> call.notes,
     item |-> call.item, err |-> call.err]

\* the quantities and notes a caller passes
WriterQuantities == {MinInt, -1, 0, 1, 2, MaxInt}
WriterNotes == {<<>>, <<110>>}
WriterItemIDs == {1, 2}

\* The stores the writer specifications visit: the sequence of ids has
\* handed out at most MaxListItemSeq ids, and every quantity is within
\* MaxQuantityDistance of 0 or of an end of the range of int.
MaxListItemSeq == 2
MaxQuantityDistance == 2

QuantityWithinBounds(q) ==
    \/ q \in MinInt..(MinInt + MaxQuantityDistance)
    \/ q \in (-MaxQuantityDistance)..MaxQuantityDistance
    \/ q \in (MaxInt - MaxQuantityDistance)..MaxInt

ListStoreWithinBounds ==
    /\ listItemSeq <= MaxListItemSeq
    /\ \A k \in DOMAIN listItems : QuantityWithinBounds(listItems[k].Quantity)

\* the statements of a writer commit
WriteListStore(db) ==
    /\ lists' = db.lists
    /\ listItems' = db.listItems
    /\ listItemSeq' = db.listItemSeq
    /\ ListStoreWithinBounds'
    /\ UNCHANGED <<items, recipes, translations, itemTypes, types, auctionHouses,
                   stats, runes>>

DoAddItemToWorkshopList ==
    /\ ret = NoCall
    /\ \E listID \in ListIDs, itemID \in WriterItemIDs, quantity \in WriterQuantities,
          notes \in WriterNotes :
          LET r == RunWriter(StartWriterCall("AddItemToWorkshopList", listID, itemID, 0,
                                             quantity, notes), ListStore)
          IN /\ WriteListStore(r.db)
             /\ ret' = WriterResult(r.call)
    /\ UNCHANGED <<calls, last>>

DoUpdateWorkshopListItem ==
    /\ ret = NoCall
    /\ \E rowID \in 1..MaxListItemSeq, quantity \in WriterQuantities, notes \in WriterNotes :
          LET r == RunWriter(StartWriterCall("UpdateWorkshopListItem", 0, 0, rowID,
                                             quantity, notes), ListStore)
          IN /\ WriteListStore(r.db)
             /\ ret' = WriterResult(r.call)
    /\ UNCHANGED <<calls, last>>

----------------------------------------------------------------------------
(* Specification SpecWriters: one caller adds items to the lists and       *)
(* updates their rows, one call after the other                            *)

InitWriters ==
    /\ items = ItemIDs
    /\ recipes = <<>>
    /\ translations = DefaultTranslations
    /\ FixedTypes
    /\ FixedRunes
    /\ lists = {1}
    /\ listItems = <<>>
    /\ ret = NoCall
    /\ calls = NoCalls
    /\ last = NoCall
    /\ listItemSeq = Len(listItems)

NextWriters ==
    \/ DoAddItemToWorkshopList
    \/ DoUpdateWorkshopListItem
    \/ Return

SpecWriters == InitWriters /\ [][NextWriters]_vars

\* C25: whatever quantities AddItemToWorkshopList and UpdateWorkshopListItem
\* were called with, every row of workshop_list_items has a quantity of at
\* least 1.
C25_QuantityAtLeastOne ==
    \A k \in DOMAIN listItems : listItems[k].Quantity >= 1

----------------------------------------------------------------------------
(* Specification SpecWrittenBetween: GetAllResourcesForList one store      *)
(* lookup at a time while SaveRecipes, AddItemToWorkshopList and           *)
(* RemoveItemFromWorkshopList commit between its lookups.  The call keeps, *)
(* in seen, what it would have returned had it run whole against each      *)
(* store there was since it began; a writer is handed its result before    *)
(* the next writer commits and before the call returns.                    *)

\* the recipes a caller hands to SaveRecipes: item -> ingredient rows
SavedRecipeTables ==
    {<<>>,
     (1 :> <<[ItemID |-> 3, Quantity |-> 1]>>),
     (1 :> <<[ItemID |-> 2, Quantity |-> 2], [ItemID |-> DanglingItemID, Quantity |-> 1]>>)}

\* table recipes with its ingredients once the transaction of SaveRecipes has
\* committed: both tables cleared, then a recipe for every item that exists
\* with the ingredients whose item exists
SaveRecipesTable(saved) ==
    IF DOMAIN saved = {} THEN recipes
    ELSE [a \in DOMAIN saved \cap items |->
             SelectSeq(saved[a], LAMBDA ingredient : ingredient.ItemID \in items)]

\* the <<item id, TotalNeeded>> pairs of a returned slice
SliceTotals(resources) ==
    {<<resources[i].ItemID, resources[i].TotalNeeded>> : i \in DOMAIN resources}

\* what the call returns when it runs whole against the store as it is
WholeCallOutcomes(listID, language) ==
    {[totals |-> SliceTotals(r.resources), err |-> r.err] :
        r \in GetAllResourcesForList(listID, language)}

\* every call in progress sees the store as it is
SeenBy(cs) ==
    [c \in DOMAIN cs |->
        [cs[c] EXCEPT !.seen = @ \cup WholeCallOutcomes(cs[c].listID, cs[c].language)]]

\* the writer is handed its result: the calls in progress see the store that
\* it left
ReturnSeen ==
    /\ ret # NoCall
    /\ ret' = NoCall
    /\ calls' = SeenBy(calls)
    /\ UNCHANGED <<store, last>>

BeginObservedCall(c) ==
    /\ c \notin DOMAIN calls
    /\ \E listID \in ListIDs, language \in RequestLanguages :
          calls' = calls @@
              (c :> (StartListCall("GetAllResourcesForList", listID, language)
                        @@ [seen |-> WholeCallOutcomes(listID, language)]))
    /\ UNCHANGED <<store, ret, last>>

EndObservedCall(c) ==
    /\ c \in DOMAIN calls
    /\ calls[c].pc = "done"
    /\ ret = NoCall
    /\ \E r \in ListCallResults(c) : ret' = r @@ [seen |-> calls[c].seen]
    /\ calls' = [d \in DOMAIN calls \ {c} |-> calls[d]]
    /\ UNCHANGED <<store, last>>

SaveRecipesBetweenLookups ==
    /\ ret = NoCall
    /\ \E saved \in SavedRecipeTables :
          /\ recipes' = SaveRecipesTable(saved)
          /\ ret' = [op |-> "SaveRecipes", recipes |-> saved, err |-> NoError]
    /\ UNCHANGED <<items, translations, itemTypes, types, auctionHouses, stats, runes,
                   lists, listItems, listItemSeq, calls, last>>

AddItemBetweenLookups ==
    /\ ret = NoCall
    /\ \E itemID \in WriterItemIDs :
          LET r == RunWriter(StartWriterCall("AddItemToWorkshopList", 1, itemID, 0,
                                             1, <<>>), ListStore)
          IN /\ WriteListStore(r.db)
             /\ ret' = WriterResult(r.call)
    /\ UNCHANGED <<calls, last>>

RemoveItemBetweenLookups ==
    /\ ret = NoCall
    /\ \E rowID \in 1..MaxListItemSeq :
          LET r == RunWriter(StartWriterCall("RemoveItemFromWorkshopList", 0, 0, rowID,
                                             0, <<>>), ListStore)
          IN /\ WriteListStore(r.db)
             /\ ret' = WriterResult(r.call)
    /\ UNCHANGED <<calls, last>>

InitWrittenBetween ==
    /\ items = ItemIDs
    /\ recipes = (1 :> <<[ItemID |-> 2, Quantity |-> 1]>>)
                    @@ (2 :> <<[ItemID |-> 3, Quantity |-> 2]>>)
    /\ translations = DefaultTranslations
    /\ FixedTypes
    /\ FixedRunes
    /\ lists = {1}
    /\ listItems = <<[ID |-> 1, WorkshopListID |-> 1, ItemID |-> 1, Quantity |-> 1,
                      Notes |-> <<>>]>>
    /\ ret = NoCall
    /\ calls = NoCalls
    /\ last = NoCall
    /\ listItemSeq = Len(listItems)

NextWrittenBetween ==
    \/ BeginObservedCall(Caller)
    \/ StepListCall(Caller)
    \/ EndObservedCall(Caller)
    \/ SaveRecipesBetweenLookups
    \/ AddItemBetweenLookups
    \/ RemoveItemBetweenLookups
    \/ ReturnSeen

SpecWrittenBetween == InitWrittenBetween /\ [][NextWrittenBetween]_vars

\* C26: the totals and the error that GetAllResourcesForList returns are those
\* the call returns when it runs whole against one of the stores there were
\* between its first statement and its return.
C26_ResultOfOneStoreState ==
    (Aggregated /\ "seen" \in DOMAIN ret) =>
        [totals |-> ResultTotals, err |-> ret.err] \in ret.seen

----------------------------------------------------------------------------
(* The writers one statement at a time, by two callers at once.  A caller  *)
(* adds to a list that exists when its call begins (its handler has found  *)
(* the list, as IsWorkshopListOwner does).                                 *)

BeginAddItemToWorkshopList(c) ==
    /\ c \notin DOMAIN calls
    /\ \E listID \in lists, itemID \in WriterItemIDs :
          calls' = calls @@
              (c :> StartWriterCall("AddItemToWorkshopList", listID, itemID, 0, 1, <<>>))
    /\ UNCHANGED <<store, ret, last>>

BeginDeleteWorkshopList(c) ==
    /\ c \notin DOMAIN calls
    /\ \E listID \in ListIDs :
          calls' = calls @@ (c :> StartWriterCall("DeleteWorkshopList", listID, 0, 0, 0, <<>>))
    /\ UNCHANGED <<store, ret, last>>

\* the call of c runs its next statement, whatever the other call is at
StepWriterCall(c) ==
    /\ c \in DOMAIN calls
    /\ calls[c].pc # "done"
    /\ LET r == WriterStep(calls[c], ListStore) IN
       /\ WriteListStore(r.db)
       /\ calls' = [calls EXCEPT ![c] = r.call]
    /\ UNCHANGED <<ret, last>>

\* the call of c returns
EndWriterCall(c) ==
    /\ c \in DOMAIN calls
    /\ calls[c].pc = "done"
    /\ ret = NoCall
    /\ ret' = WriterResult(calls[c]) @@ [caller |-> c]
    /\ calls' = [d \in DOMAIN calls \ {c} |-> calls[d]]
    /\ UNCHANGED <<store, last>>

----------------------------------------------------------------------------
(* Specification SpecAdders: two callers add items to list 1               *)

NextAdders ==
    \/ \E c \in Callers : BeginAddItemToWorkshopList(c)
    \/ \E c \in Callers : StepWriterCall(c)
    \/ \E c \in Callers : EndWriterCall(c)
    \/ Return

SpecAdders == InitWriters /\ [][NextAdders]_vars

\* C28: table workshop_list_items never holds two rows of the same list for
\* the same item.
C28_OneRowPerListAndItem ==
    \A k, j \in DOMAIN listItems :
        (/\ listItems[k].WorkshopListID = listItems[j].WorkshopListID
         /\ listItems[k].ItemID = listItems[j].ItemID) => k = j

----------------------------------------------------------------------------
(* Specification SpecDeleting: two callers add items to the lists and      *)
(* delete the lists                                                        *)

InitDeleting ==
    /\ items = ItemIDs
    /\ recipes = <<>>
    /\ translations = DefaultTranslations
    /\ FixedTypes
    /\ FixedRunes
    /\ lists = ListIDs
    /\ listItems \in {<<>>, <<[ID |-> 1, WorkshopListID |-> 1, ItemID |-> 1, Quantity |-> 1,
                              Notes |-> <<>>]>>}
    /\ ret = NoCall
    /\ calls = NoCalls
    /\ last = NoCall
    /\ listItemSeq = Len(listItems)

NextDeleting ==
    \/ \E c \in Callers : BeginAddItemToWorkshopList(c)
    \/ \E c \in Callers : BeginDeleteWorkshopList(c)
    \/ \E c \in Callers : StepWriterCall(c)
    \/ \E c \in Callers : EndWriterCall(c)
    \/ Return

SpecDeleting == InitDeleting /\ [][NextDeleting]_vars

====
